---- MODULE Spec2Model ----
(***************************************************************************)
(* A model of the Splice code generator of SpliceBlocks:                   *)
(*   generators/splice/splice_generator.ts  (Order, SpliceGenerator)       *)
(*   generators/splice/{math,logic,loops,text,lists,procedures,            *)
(*                      variables_dynamic}.ts  (the block emitters)        *)
(* Generated code is a sequence of string tokens; Flat(code) is the text.  *)
(* The generator's mutable tables travel in one record g, threaded through *)
(* every call the way `this`/`generator` is in the source.                 *)
(***************************************************************************)
EXTENDS Integers, Sequences, FiniteSets, TLC

(***************************************************************************)
(* Bounds of the model.                                                    *)
(***************************************************************************)
\* Number of generation passes (init .. finish) one behaviour runs.
MaxPasses == 2
\* Largest numeric suffix the name database tries when disambiguating.
MaxSuffix == 6

(***************************************************************************)
(* Order of operations, splice_generator.ts:27-51.  The source uses the    *)
(* fractional levels 2.1 and 2.2; every level is held here in tenths.      *)
(***************************************************************************)
Order ==
  [ATOMIC |-> 0, COLLECTION |-> 10, STRING_CONVERSION |-> 10,
   MEMBER |-> 21, FUNCTION_CALL |-> 22, EXPONENTIATION |-> 30,
   UNARY_SIGN |-> 40, BITWISE_NOT |-> 40, MULTIPLICATIVE |-> 50,
   DIVISION |-> 50, ADDITIVE |-> 60, BITWISE_SHIFT |-> 70,
   BITWISE_AND |-> 80, BITWISE_XOR |-> 90, BITWISE_OR |-> 100,
   RELATIONAL |-> 110, EQUALITY |-> 120, LOGICAL_NOT |-> 130,
   LOGICAL_AND |-> 140, LOGICAL_OR |-> 150, CONDITIONAL |-> 160,
   ASSIGNMENT |-> 170, NONE |-> 990]

\* Every level of the table.
OrderValues == {Order[k] : k \in DOMAIN Order}

\* A variant of the table below without the AND-inside-AND pairing.
ORDER_OVERRIDES_noAndAnd ==
  {<<Order.FUNCTION_CALL, Order.MEMBER>>,
   <<Order.FUNCTION_CALL, Order.FUNCTION_CALL>>,
   <<Order.MEMBER, Order.MEMBER>>,
   <<Order.MEMBER, Order.FUNCTION_CALL>>,
   <<Order.LOGICAL_NOT, Order.LOGICAL_NOT>>,
   <<Order.LOGICAL_OR, Order.LOGICAL_OR>>}

\* Outer-inner pairings that do NOT require parentheses.
ORDER_OVERRIDES ==
  {<<Order.FUNCTION_CALL, Order.MEMBER>>,
   <<Order.FUNCTION_CALL, Order.FUNCTION_CALL>>,
   <<Order.MEMBER, Order.MEMBER>>,
   <<Order.MEMBER, Order.FUNCTION_CALL>>,
   <<Order.LOGICAL_NOT, Order.LOGICAL_NOT>>,
   <<Order.LOGICAL_AND, Order.LOGICAL_AND>>,
   <<Order.LOGICAL_OR, Order.LOGICAL_OR>>}

(***************************************************************************)
(* Text.                                                                   *)
(***************************************************************************)
RECURSIVE Flat(_)
\* The text of a token sequence.
Flat(code) == IF code = <<>> THEN "" ELSE Head(code) \o Flat(Tail(code))

RECURSIVE Join(_, _)
\* Array.prototype.join: the parts with sep between consecutive parts.
Join(parts, sep) ==
  IF parts = <<>> THEN <<>>
  ELSE IF Len(parts) = 1 THEN parts[1]
  ELSE parts[1] \o sep \o Join(Tail(parts), sep)

\* JavaScript's  a || b  on strings: b when a is the empty string.
OrElse(code, dflt) == IF code = <<>> THEN dflt ELSE code

\* CodeGenerator.INDENT and the placeholder of helper templates.
INDENT == "  "
FUNCTION_NAME_PLACEHOLDER_ == "{leCUI8hutHZI4480Dc}"

NL == "\n"

\* CodeGenerator.prefixLines: prefix at the start of the text and after
\* every newline that is not the last character.
RECURSIVE prefixRest(_, _)
prefixRest(code, prefix) ==
  IF code = <<>> THEN <<>>
  ELSE IF Head(code) = NL /\ Len(code) > 1
       THEN <<NL, prefix>> \o prefixRest(Tail(code), prefix)
       ELSE <<Head(code)>> \o prefixRest(Tail(code), prefix)

prefixLines(code, prefix) == <<prefix>> \o prefixRest(code, prefix)

(***************************************************************************)
(* Blocks and workspaces (the host framework's side of the interface).     *)
(* A block has a type tag, fields, and an input list; a connection holds a *)
(* chain of blocks: the target block followed by its next-statement links  *)
(* (at most one block for a value input).                                  *)
(***************************************************************************)
\* comment is the developer comment attached to the block ("" for none);
\* plugged tells that the block's output is connected to an input.
Blk(type, fields, inputs) ==
  [type |-> type, fields |-> fields, inputs |-> inputs,
   comment |-> "", plugged |-> FALSE]

V(name, chain) ==
  [name |-> name, type |-> "VALUE",
   target |-> [i \in 1..Len(chain) |-> [chain[i] EXCEPT !.plugged = TRUE]]]
S(name, chain) == [name |-> name, type |-> "STATEMENT", target |-> chain]

NoFields == <<>>
NoInputs == <<>>

\* block.getFieldValue(name): null (here the empty string) when absent.
getFieldValue(block, name) ==
  IF name \in DOMAIN block.fields THEN block.fields[name] ELSE ""

\* block.getField(name) !== null
hasField(block, name) == name \in DOMAIN block.fields

\* block.getInput(name) !== null
hasInput(block, name) ==
  \E i \in 1..Len(block.inputs) : block.inputs[i].name = name

\* block.getInputTargetBlock(name) with its next-statement links; <<>>
\* when the input is absent or unconnected.
getInputTarget(block, name) ==
  IF hasInput(block, name)
  THEN block.inputs[CHOOSE i \in 1..Len(block.inputs) :
                      block.inputs[i].name = name].target
  ELSE <<>>

\* block.getVars(): the variable ids the block refers to.
getVars(block) ==
  IF "VAR" \in DOMAIN block.fields THEN <<block.fields.VAR>>
  ELSE IF "ARGS" \in DOMAIN block.fields THEN block.fields.ARGS
  ELSE <<>>

RECURSIVE getDescendants(_)
RECURSIVE chainDescendants(_)
RECURSIVE inputsDescendants(_)
\* Block.getDescendants: the block, then the blocks of each input in input
\* order.
getDescendants(block) == <<block>> \o inputsDescendants(block.inputs)

inputsDescendants(inputs) ==
  IF inputs = <<>> THEN <<>>
  ELSE chainDescendants(Head(inputs).target) \o inputsDescendants(Tail(inputs))

chainDescendants(chain) ==
  IF chain = <<>> THEN <<>>
  ELSE getDescendants(Head(chain)) \o chainDescendants(Tail(chain))

RECURSIVE getAllBlocks(_)
\* Workspace.getAllBlocks over the top-level chains.
getAllBlocks(tops) ==
  IF tops = <<>> THEN <<>>
  ELSE chainDescendants(Head(tops)) \o getAllBlocks(Tail(tops))

RECURSIVE appendNew(_, _)
\* The elements of xs not yet in acc, appended to acc in order.
appendNew(acc, xs) ==
  IF xs = <<>> THEN acc
  ELSE appendNew(IF \E i \in 1..Len(acc) : acc[i] = Head(xs)
                 THEN acc ELSE Append(acc, Head(xs)),
                 Tail(xs))

RECURSIVE usedVarIds(_, _)
\* Variables.allUsedVarModels: the variables referred to by some block, in
\* the order the scan of all blocks first meets them.
usedVarIds(blocks, acc) ==
  IF blocks = <<>> THEN acc
  ELSE usedVarIds(Tail(blocks), appendNew(acc, getVars(Head(blocks))))

allUsedVarModels(workspace) == usedVarIds(getAllBlocks(workspace.tops), <<>>)

RECURSIVE procNames(_)
\* Procedures.allProcedures: the names of the definition blocks.
procNames(blocks) ==
  IF blocks = <<>> THEN <<>>
  ELSE (IF Head(blocks).type \in {"procedures_defnoreturn", "procedures_defreturn"}
        THEN <<Head(blocks).fields.NAME>> ELSE <<>>) \o procNames(Tail(blocks))

allProcedures(workspace) == procNames(getAllBlocks(workspace.tops))

\* VariableMap lookup: the user's name of the variable with this id, or "".
varNameOf(workspace, id) ==
  IF \E i \in 1..Len(workspace.variables) : workspace.variables[i].id = id
  THEN workspace.variables[CHOOSE i \in 1..Len(workspace.variables) :
                             workspace.variables[i].id = id].name
  ELSE ""

(***************************************************************************)
(* The name database (core Names): db maps (type, identifier) to the       *)
(* allocated name, dbReverse is the set of allocated names.                *)
(***************************************************************************)
VARIABLE_TYPE == "VARIABLE"
PROCEDURE_TYPE == "PROCEDURE"

\* spliceGenerator.addReservedWords('math,random,Number')
\* A variant of the set below in which 'math' is not reserved.
RESERVED_WORDS_noMath == {"random", "Number"}

RESERVED_WORDS_ == {"math", "random", "Number"}

\* Names.safeName_: an empty name becomes 'unnamed', characters that are
\* illegal in an identifier become '_', a leading digit gets 'my_'.
safeName_(name) ==
  CASE name = "" -> "unnamed"
    [] name = "my list" -> "my_list"
    [] name = "2nd" -> "my_2nd"
    [] OTHER -> name

\* The i-th candidate for a base name: the name itself, then name2, name3...
candidate(safe, i) == IF i = 1 THEN safe ELSE safe \o ToString(i)

NewNames == [created |-> FALSE, db |-> <<>>, dbReverse |-> {}]

\* Names.reset
resetNames(names) == [created |-> TRUE, db |-> <<>>, dbReverse |-> {}]

\* Names.getDistinctName: the first candidate that is neither allocated nor
\* reserved; it becomes allocated.
getDistinctName(names, name, type) ==
  LET safe == safeName_(name)
      i == CHOOSE k \in 1..MaxSuffix :
             /\ candidate(safe, k) \notin names.dbReverse \cup RESERVED_WORDS_
             /\ \A j \in 1..(k - 1) :
                  candidate(safe, j) \in names.dbReverse \cup RESERVED_WORDS_
  IN [name |-> candidate(safe, i),
      names |-> [names EXCEPT !.dbReverse = @ \cup {candidate(safe, i)}]]

\* Whether db holds an entry for (type, key).
dbHas(names, type, key) ==
  \E i \in 1..Len(names.db) : names.db[i].type = type /\ names.db[i].key = key

dbGet(names, type, key) ==
  names.db[CHOOSE i \in 1..Len(names.db) :
             names.db[i].type = type /\ names.db[i].key = key].name

\* Names.getName: the name allocated to an identifier, allocated on first
\* use.  A variable id is first resolved to the user's name of the variable.
getName(names, workspace, nameOrId, type) ==
  LET varName == IF type = VARIABLE_TYPE THEN varNameOf(workspace, nameOrId) ELSE ""
      name == IF varName # "" THEN varName ELSE nameOrId
  IN IF dbHas(names, type, name)
     THEN [name |-> dbGet(names, type, name), names |-> names]
     ELSE LET d == getDistinctName(names, name, type)
          IN [name |-> d.name,
              names |-> [d.names EXCEPT !.db =
                           Append(@, [type |-> type, key |-> name, name |-> d.name])]]

RECURSIVE populate(_, _, _, _)
\* getName for each identifier of ids in turn.
populate(names, workspace, ids, type) ==
  IF ids = <<>> THEN names
  ELSE populate(getName(names, workspace, Head(ids), type).names,
                workspace, Tail(ids), type)

\* Names.populateVariables: every variable of the workspace.
populateVariables(names, workspace) ==
  populate(names, workspace,
           [i \in 1..Len(workspace.variables) |-> workspace.variables[i].id],
           VARIABLE_TYPE)

\* Names.populateProcedures: every procedure of the workspace.
populateProcedures(names, workspace) ==
  populate(names, workspace, allProcedures(workspace), PROCEDURE_TYPE)

(***************************************************************************)
(* The generator's tables.  definitions_ is an insertion-ordered map: a    *)
(* sequence of [key, code] entries.                                        *)
(***************************************************************************)
hasKey(map, key) == \E i \in 1..Len(map) : map[i].key = key

getKey(map, key) == map[CHOOSE i \in 1..Len(map) : map[i].key = key].code

\* map[key] = code: in place when the key exists, appended otherwise.
setKey(map, key, code) ==
  IF hasKey(map, key)
  THEN [i \in 1..Len(map) |->
          IF map[i].key = key THEN [key |-> key, code |-> code] ELSE map[i]]
  ELSE Append(map, [key |-> key, code |-> code])

\* Object.values(map)
values(map) == [i \in 1..Len(map) |-> map[i].code]

\* No error raised.
NoErr == ""

(***************************************************************************)
(* Token classes, standing for the regular expressions and character tests *)
(* the source applies to generated text.                                   *)
(***************************************************************************)
\* Unsigned integer literals, negative literals and decimal literals that
\* number fields hold.
UnsignedTokens == {"0", "1", "2", "3", "5"}
NegativeTokens == {"-1", "-3"}
DecimalTokens == {"1.5"}

\* Base names of identifiers: the users' names and the synthesized ones.
BaseNames ==
  {"x", "y", "count", "my list", "math", "proc", "repeat_end", "list",
   "index", "lists_reverse"}

\* Every identifier the name database can allocate.
IdentTokens == {candidate(safeName_(n), i) : n \in BaseNames, i \in 1..(MaxSuffix + 1)}

\* text.match(/^\w+$/)
isWord(code) ==
  /\ Len(code) = 1
  /\ code[1] \in UnsignedTokens \cup IdentTokens \cup {"true", "false", "null", "Infinity"}

\* String(parseFloat(text)).match(/^-?\d+(\.\d+)?$/): parseFloat reads the
\* longest numeric prefix, so this holds when the text starts with a number.
startsWithNumber(code) ==
  /\ code # <<>>
  /\ \/ Head(code) \in UnsignedTokens \cup NegativeTokens \cup DecimalTokens
     \/ Head(code) = "-" /\ Len(code) >= 2
          /\ code[2] \in UnsignedTokens \cup DecimalTokens

\* text[0] === '-'
startsWithMinus(code) ==
  code # <<>> /\ Head(code) \in {"-"} \cup NegativeTokens

(***************************************************************************)
(* Results of emitters and of the core's entry points.  A raised error is  *)
(* kept in g.err; once set, the rest of the call changes nothing.          *)
(***************************************************************************)
Val(code, order, g) == [kind |-> "value", code |-> code, order |-> order, g |-> g]
Stmt(code, g) == [kind |-> "statement", code |-> code, order |-> 0, g |-> g]
NullRes(g) == [kind |-> "null", code |-> <<>>, order |-> 0, g |-> g]
Out(code, g) == [code |-> code, g |-> g]

Fail(g, msg) == [g EXCEPT !.err = IF @ = NoErr THEN msg ELSE @]

\* CodeGenerator.getVariableName / getProcedureName: nameDB_.getName, an
\* error while no name database exists.
getNameIn(g, nameOrId, type) ==
  IF g.err # NoErr THEN [name |-> "", g |-> g]
  ELSE IF ~g.nameDB_.created
  THEN [name |-> "", g |-> Fail(g, "Name database is not defined")]
  ELSE LET r == getName(g.nameDB_, g.workspace, nameOrId, type)
       IN [name |-> r.name, g |-> [g EXCEPT !.nameDB_ = r.names]]

getVariableName(g, id) == getNameIn(g, id, VARIABLE_TYPE)
getProcedureName(g, name) == getNameIn(g, name, PROCEDURE_TYPE)

\* generator.nameDB_!.getDistinctName(name, type)
distinctNameIn(g, name, type) ==
  IF g.err # NoErr THEN [name |-> "", g |-> g]
  ELSE IF ~g.nameDB_.created
  THEN [name |-> "", g |-> Fail(g, "Name database is not defined")]
  ELSE LET r == getDistinctName(g.nameDB_, name, type)
       IN [name |-> r.name, g |-> [g EXCEPT !.nameDB_ = r.names]]

\* Whether outerOrder around innerOrder needs parentheses: not when the
\* inner expression binds tighter, not for ATOMIC in ATOMIC or NONE in NONE,
\* and not for a pairing of ORDER_OVERRIDES.
parensNeeded(outerOrder, innerOrder) ==
  /\ outerOrder <= innerOrder
  /\ ~(outerOrder = innerOrder /\ outerOrder \in {Order.ATOMIC, Order.NONE})
  /\ <<outerOrder, innerOrder>> \notin ORDER_OVERRIDES

RECURSIVE replacePlaceholder(_, _)
\* Every FUNCTION_NAME_PLACEHOLDER_ of the text replaced by the name.
replacePlaceholder(code, name) ==
  IF code = <<>> THEN <<>>
  ELSE <<IF Head(code) = FUNCTION_NAME_PLACEHOLDER_ THEN name ELSE Head(code)>>
       \o replacePlaceholder(Tail(code), name)

\* CodeGenerator.provideFunction_: the helper's name; on the first call
\* for desiredName the name is allocated and the rendered lines are stored
\* in definitions_.
provideFunction_(g, desiredName, lines) ==
  IF g.err # NoErr THEN [name |-> "", g |-> g]
  ELSE IF ~g.isInitialized
  THEN [name |-> "", g |-> Fail(g, "usage: generator is not initialized")]
  ELSE IF hasKey(g.definitions_, desiredName)
  THEN [name |-> getKey(g.functionNames_, desiredName), g |-> g]
  ELSE LET d == getDistinctName(g.nameDB_, desiredName, PROCEDURE_TYPE)
           codeText == replacePlaceholder(Join(lines, <<NL>>), d.name)
       IN [name |-> d.name,
           g |-> [g EXCEPT !.nameDB_ = d.names,
                           !.functionNames_ = setKey(@, desiredName, d.name),
                           !.definitions_ = setKey(@, desiredName, codeText)]]

\* CodeGenerator.addLoopTrap with no INFINITE_LOOP_TRAP, STATEMENT_PREFIX
\* or STATEMENT_SUFFIX configured: the branch as it is.
addLoopTrap(branch, block) == branch

\* stringUtils.wrap for a comment shorter than the wrap limit.
wrap(text, limit) == text

(***************************************************************************)
(* The core's entry points and the block emitters call each other.         *)
(***************************************************************************)
RECURSIVE blockToCode(_, _, _)
RECURSIVE valueToCode(_, _, _, _)
RECURSIVE statementToCode(_, _, _)
RECURSIVE scrub_(_, _, _, _)

\* An absent optional argument.
Undefined == -1

\* Sequencing of a call and the code after it: the call's result r is
\* computed first, and K is then applied to it.
Then(r, K(_)) == CHOOSE v \in {K(x) : x \in {r}} : TRUE

\* SpliceGenerator.getAdjusted
getAdjusted(g, block, atId, opt_delta, opt_negate, opt_order) ==
  LET delta0 == IF opt_delta = Undefined THEN 0 ELSE opt_delta
      order == IF opt_order = Undefined \/ opt_order = 0 THEN Order.NONE ELSE opt_order
      delta == IF g.workspace.oneBasedIndex THEN delta0 - 1 ELSE delta0
      negated(at) == IF opt_negate THEN <<"!">> \o at ELSE at
      shifted(at) == IF delta > 0 THEN negated(at) \o <<" + ", ToString(delta)>>
                     ELSE IF delta < 0 THEN negated(at) \o <<" - ", ToString(-delta)>>
                     ELSE negated(at)
      wrapped(at) == IF opt_order # Undefined /\ order >= Order.ADDITIVE
                     THEN <<"(">> \o shifted(at) \o <<")">> ELSE shifted(at)
  IN Then(valueToCode(g, block, atId, order), LAMBDA v :
       IF v.code # <<>> THEN Out(wrapped(v.code), v.g) ELSE Out(v.code, v.g))

(* math *)

math_number(g, block) == Val(<<getFieldValue(block, "NUM")>>, Order.ATOMIC, g)

math_arithmetic_OPERATORS ==
  [ADD |-> <<" + ", Order.ADDITIVE>>,
   MINUS |-> <<" - ", Order.ADDITIVE>>,
   MULTIPLY |-> <<" * ", Order.MULTIPLICATIVE>>,
   DIVIDE |-> <<" / ", Order.MULTIPLICATIVE>>,
   POWER |-> <<" ** ", Order.EXPONENTIATION>>]

\* A variant of the emitter below that asks for its right operand without
\* an order context.
math_arithmetic_looseRight(g, block) ==
  LET op == getFieldValue(block, "OP")
  IN IF op \notin DOMAIN math_arithmetic_OPERATORS
     THEN Val(<<>>, Order.NONE, Fail(g, "TypeError: tuple is undefined"))
     ELSE LET tuple == math_arithmetic_OPERATORS[op]
              operator == tuple[1]
              order == tuple[2]
          IN Then(valueToCode(g, block, "A", order), LAMBDA a0 :
             Then(valueToCode(a0.g, block, "B", Order.NONE), LAMBDA a1 :
               Val(OrElse(a0.code, <<"0">>) \o <<operator>> \o OrElse(a1.code, <<"0">>),
                   order, a1.g)))

math_arithmetic(g, block) ==
  LET op == getFieldValue(block, "OP")
  IN IF op \notin DOMAIN math_arithmetic_OPERATORS
     THEN Val(<<>>, Order.NONE, Fail(g, "TypeError: tuple is undefined"))
     ELSE LET tuple == math_arithmetic_OPERATORS[op]
              operator == tuple[1]
              order == tuple[2]
          IN Then(valueToCode(g, block, "A", order), LAMBDA a0 :
             Then(valueToCode(a0.g, block, "B", order), LAMBDA a1 :
               Val(OrElse(a0.code, <<"0">>) \o <<operator>> \o OrElse(a1.code, <<"0">>),
                   order, a1.g)))

math_random_float(g, block) == Val(<<"random.random()">>, Order.FUNCTION_CALL, g)

\* The functions math_single calls, with the order it asks its operand in.
math_single_FUNCTIONS ==
  [SIN |-> <<"math.sin(", Order.MULTIPLICATIVE>>,
   COS |-> <<"math.cos(", Order.MULTIPLICATIVE>>,
   TAN |-> <<"math.tan(", Order.MULTIPLICATIVE>>,
   ROOT |-> <<"math.sqrt(", Order.MULTIPLICATIVE>>,
   LN |-> <<"math.log(", Order.MULTIPLICATIVE>>,
   LOG10 |-> <<"math.log10(", Order.MULTIPLICATIVE>>,
   ABS |-> <<"math.abs(", Order.UNARY_SIGN>>,
   EXP |-> <<"math.exp(", Order.MULTIPLICATIVE>>,
   POW10 |-> <<"math.pow(10, ", Order.MULTIPLICATIVE>>]

\* A variant of the emitter below that prefixes the minus sign whatever the
\* operand begins with.
math_single_bareMinus(g, block) ==
  LET operator == getFieldValue(block, "OP")
  IN IF operator # "NEG" /\ operator \notin DOMAIN math_single_FUNCTIONS
     THEN Val(<<>>, Order.NONE, Fail(g, "Unknown math operator: " \o operator))
     ELSE Then(valueToCode(g, block, "NUM",
                           IF operator = "NEG" THEN Order.UNARY_SIGN
                           ELSE math_single_FUNCTIONS[operator][2]), LAMBDA a :
          Then(OrElse(a.code, <<"0">>), LAMBDA arg :
            IF operator = "NEG"
            THEN Val(<<"-">> \o arg, Order.UNARY_SIGN, a.g)
            ELSE Val(<<math_single_FUNCTIONS[operator][1]>> \o arg \o <<")">>,
                     Order.FUNCTION_CALL, a.g)))

math_single(g, block) ==
  LET operator == getFieldValue(block, "OP")
  IN IF operator # "NEG" /\ operator \notin DOMAIN math_single_FUNCTIONS
     THEN Val(<<>>, Order.NONE, Fail(g, "Unknown math operator: " \o operator))
     ELSE Then(valueToCode(g, block, "NUM",
                           IF operator = "NEG" THEN Order.UNARY_SIGN
                           ELSE math_single_FUNCTIONS[operator][2]), LAMBDA a :
          Then(OrElse(a.code, <<"0">>), LAMBDA arg :
            IF operator = "NEG"
            THEN Val(<<"-">> \o (IF startsWithMinus(arg)
                                 THEN <<" (">> \o arg \o <<")">> ELSE arg),
                     Order.UNARY_SIGN, a.g)
            ELSE Val(<<math_single_FUNCTIONS[operator][1]>> \o arg \o <<")">>,
                     Order.FUNCTION_CALL, a.g)))

(* logic *)

logic_compare_OPERATORS ==
  [EQ |-> "==", NEQ |-> "!=", LT |-> "<", LTE |-> "<=", GT |-> ">", GTE |-> ">="]

logic_compare(g, block) ==
  LET op == getFieldValue(block, "OP")
      operator == IF op \in DOMAIN logic_compare_OPERATORS
                  THEN logic_compare_OPERATORS[op] ELSE "undefined"
      order == Order.RELATIONAL
  IN Then(valueToCode(g, block, "A", order), LAMBDA a0 :
     Then(valueToCode(a0.g, block, "B", order), LAMBDA a1 :
       Val(OrElse(a0.code, <<"0">>) \o <<" ", operator, " ">> \o OrElse(a1.code, <<"0">>),
           order, a1.g)))

logic_operation(g, block) ==
  LET operator == IF getFieldValue(block, "OP") = "AND" THEN "&&" ELSE "||"
      order == IF operator = "&&" THEN Order.LOGICAL_AND ELSE Order.LOGICAL_OR
      defaultArgument == IF operator = "&&" THEN <<"true">> ELSE <<"false">>
      argument(code0, code1, own) ==
        IF code0 = <<>> /\ code1 = <<>> THEN <<"false">> ELSE OrElse(own, defaultArgument)
  IN Then(valueToCode(g, block, "A", order), LAMBDA a0 :
     Then(valueToCode(a0.g, block, "B", order), LAMBDA a1 :
       Val(argument(a0.code, a1.code, a0.code) \o <<" ", operator, " ">>
           \o argument(a0.code, a1.code, a1.code),
           order, a1.g)))

logic_negate(g, block) ==
  LET order == Order.LOGICAL_NOT
  IN Then(valueToCode(g, block, "BOOL", order), LAMBDA a0 :
       Val(<<"!">> \o OrElse(a0.code, <<"true">>), order, a0.g))

logic_boolean(g, block) ==
  Val(<<IF getFieldValue(block, "BOOL") = "TRUE" THEN "true" ELSE "false">>,
      Order.ATOMIC, g)

(* variables *)

variables_get_dynamic(g, block) ==
  Then(getVariableName(g, getFieldValue(block, "VAR")), LAMBDA n :
    Val(<<n.name>>, Order.ATOMIC, n.g))

variables_set_dynamic(g, block) ==
  Then(valueToCode(g, block, "VALUE", Order.ASSIGNMENT), LAMBDA a0 :
  Then(getVariableName(a0.g, getFieldValue(block, "VAR")), LAMBDA n :
    Stmt(<<n.name, " = ">> \o OrElse(a0.code, <<"0">>) \o <<";", NL>>, n.g)))

(* loops *)

\* String(Number(text)) for the text of a number field.
stringOfNumber(text) ==
  CASE text = "" -> "0"
    [] text = "03" -> "3"
    [] text \in UnsignedTokens \cup NegativeTokens \cup DecimalTokens -> text
    [] OTHER -> "NaN"

\* A variant of the emitter below that keeps the count in an end variable
\* whatever the count is.
controls_repeat_ext_endAlways(g, block) ==
  Then(IF hasField(block, "TIMES")
       THEN Out(<<stringOfNumber(getFieldValue(block, "TIMES"))>>, g)
       ELSE valueToCode(g, block, "TIMES", Order.ASSIGNMENT), LAMBDA t :
  Then(IF hasField(block, "TIMES") THEN t.code ELSE OrElse(t.code, <<"0">>),
       LAMBDA repeats :
  Then(statementToCode(t.g, block, "DO"), LAMBDA b :
  Then(addLoopTrap(b.code, block), LAMBDA branch :
  Then(distinctNameIn(b.g, "count", VARIABLE_TYPE), LAMBDA loopVar :
  Then(distinctNameIn(loopVar.g, "repeat_end", VARIABLE_TYPE), LAMBDA e :
    Stmt(<<"let ", e.name, " = ">> \o repeats \o <<";", NL>>
         \o <<"for (let ", loopVar.name, " = 0; ", loopVar.name, " < ", e.name>>
         \o <<"; ", loopVar.name, "++) {", NL>>
         \o branch \o <<"}", NL>>,
         e.g)))))))

\* A variant of the emitter below that names its counter 'count' without
\* asking for a distinct name.
controls_repeat_ext_fixedCounter(g, block) ==
  LET needEnd(repeats) == ~isWord(repeats) /\ ~startsWithNumber(repeats)
  IN Then(IF hasField(block, "TIMES")
          THEN Out(<<stringOfNumber(getFieldValue(block, "TIMES"))>>, g)
          ELSE valueToCode(g, block, "TIMES", Order.ASSIGNMENT), LAMBDA t :
     Then(IF hasField(block, "TIMES") THEN t.code ELSE OrElse(t.code, <<"0">>),
          LAMBDA repeats :
     Then(statementToCode(t.g, block, "DO"), LAMBDA b :
     Then(addLoopTrap(b.code, block), LAMBDA branch :
     Then(IF needEnd(repeats)
          THEN distinctNameIn(b.g, "repeat_end", VARIABLE_TYPE)
          ELSE [name |-> "", g |-> b.g], LAMBDA e :
       Stmt((IF needEnd(repeats)
             THEN <<"let ", e.name, " = ">> \o repeats \o <<";", NL>>
             ELSE <<>>)
            \o <<"for (let ", "count", " = 0; ", "count", " < ">>
            \o (IF needEnd(repeats) THEN <<e.name>> ELSE repeats)
            \o <<"; ", "count", "++) {", NL>>
            \o branch \o <<"}", NL>>,
            e.g))))))

controls_repeat_ext(g, block) ==
  LET needEnd(repeats) == ~isWord(repeats) /\ ~startsWithNumber(repeats)
  IN Then(IF hasField(block, "TIMES")
          THEN Out(<<stringOfNumber(getFieldValue(block, "TIMES"))>>, g)
          ELSE valueToCode(g, block, "TIMES", Order.ASSIGNMENT), LAMBDA t :
     Then(IF hasField(block, "TIMES") THEN t.code ELSE OrElse(t.code, <<"0">>),
          LAMBDA repeats :
     Then(statementToCode(t.g, block, "DO"), LAMBDA b :
     Then(addLoopTrap(b.code, block), LAMBDA branch :
     Then(distinctNameIn(b.g, "count", VARIABLE_TYPE), LAMBDA loopVar :
     Then(IF needEnd(repeats)
          THEN distinctNameIn(loopVar.g, "repeat_end", VARIABLE_TYPE)
          ELSE [name |-> "", g |-> loopVar.g], LAMBDA e :
       Stmt((IF needEnd(repeats)
             THEN <<"let ", e.name, " = ">> \o repeats \o <<";", NL>>
             ELSE <<>>)
            \o <<"for (let ", loopVar.name, " = 0; ", loopVar.name, " < ">>
            \o (IF needEnd(repeats) THEN <<e.name>> ELSE repeats)
            \o <<"; ", loopVar.name, "++) {", NL>>
            \o branch \o <<"}", NL>>,
            e.g)))))))

controls_forEach(g, block) ==
  Then(getVariableName(g, getFieldValue(block, "VAR")), LAMBDA n :
  Then(valueToCode(n.g, block, "LIST", Order.ASSIGNMENT), LAMBDA a0 :
  Then(statementToCode(a0.g, block, "DO"), LAMBDA b :
  Then(addLoopTrap(b.code, block), LAMBDA branch :
  Then(distinctNameIn(b.g, "list", VARIABLE_TYPE), LAMBDA listVar :
  Then(distinctNameIn(listVar.g, "index", VARIABLE_TYPE), LAMBDA indexVar :
    Stmt(<<"let ", listVar.name, " = ">> \o OrElse(a0.code, <<"[]">>) \o <<";", NL>>
         \o <<"for (let ", indexVar.name, " = 0; ", indexVar.name,
              " < len(", listVar.name, "); ", indexVar.name, "++) {", NL>>
         \o <<"  let ", n.name, " = ", listVar.name, "[", indexVar.name, "];", NL>>
         \o branch \o <<"}", NL>>,
         indexVar.g)))))))

(* text and lists *)

text_print(g, block) ==
  Then(valueToCode(g, block, "TEXT", Order.NONE), LAMBDA m :
    Stmt(<<"print(">> \o OrElse(m.code, <<"\"\"">>) \o <<");", NL>>, m.g))

text_trim_OPERATORS ==
  [LEFT |-> ".trimStart()", RIGHT |-> ".trimEnd()", BOTH |-> ".trim()"]

\* A missing key of OPERATORS reads as undefined, which the concatenation
\* turns into the text 'undefined'.
text_trim(g, block) ==
  LET mode == getFieldValue(block, "MODE")
      operator == IF mode \in DOMAIN text_trim_OPERATORS
                  THEN text_trim_OPERATORS[mode] ELSE "undefined"
  IN Then(valueToCode(g, block, "TEXT", Order.NONE), LAMBDA t :
       Val(OrElse(t.code, <<"\"\"">>) \o <<operator>>, Order.FUNCTION_CALL, t.g))

text_random_letter_lines ==
  << <<"function ", FUNCTION_NAME_PLACEHOLDER_, "(text) {">>,
     <<"  const length = text.length;">>,
     <<"  const position = Math.floor(Math.random() * length);">>,
     <<"  return text[position];">>,
     <<"}">> >>

text_charAt(g, block) ==
  LET where == IF getFieldValue(block, "WHERE") = "" THEN "FROM_START"
               ELSE getFieldValue(block, "WHERE")
  IN Then(valueToCode(g, block, "VALUE", Order.NONE), LAMBDA t :
     Then(OrElse(t.code, <<"\"\"">>), LAMBDA text :
       CASE where = "FROM_START" ->
              Then(getAdjusted(t.g, block, "AT", Undefined, FALSE, Undefined), LAMBDA at :
                Val(text \o <<"[">> \o at.code \o <<"]">>, Order.MEMBER, at.g))
         [] where = "FROM_END" ->
              Then(getAdjusted(t.g, block, "AT", 1, TRUE, Undefined), LAMBDA at :
                Val(text \o <<"[">> \o at.code \o <<"]">>, Order.MEMBER, at.g))
         [] where = "FIRST" -> Val(text \o <<"[", "0", "]">>, Order.MEMBER, t.g)
         [] where = "LAST" -> Val(text \o <<"[", "-1", "]">>, Order.MEMBER, t.g)
         [] where = "RANDOM" ->
              Then(provideFunction_(t.g, "text_random_letter", text_random_letter_lines),
                   LAMBDA f :
                Val(<<f.name, "(">> \o text \o <<")">>, Order.FUNCTION_CALL, f.g))
         [] OTHER -> Val(<<>>, Order.NONE, Fail(t.g, "Unhandled option (text_charAt)."))))

lists_create_empty(g, block) == Val(<<"[]">>, Order.ATOMIC, g)

lists_getIndex(g, block) ==
  Then(valueToCode(g, block, "VALUE", Order.MEMBER), LAMBDA l :
  Then(getAdjusted(l.g, block, "AT", Undefined, FALSE, Undefined), LAMBDA at :
    Val(OrElse(l.code, <<"[]">>) \o <<"[">> \o at.code \o <<"]">>, Order.MEMBER, at.g)))

lists_reverse_lines ==
  << <<"func ", FUNCTION_NAME_PLACEHOLDER_, "(list) {">>,
     <<"  let result = [];">>,
     <<"  let i = len(list) - 1;">>,
     <<"  while (i >= 0) {">>,
     <<"    append(result, list[i]);">>,
     <<"    i = i - 1;">>,
     <<"  }">>,
     <<"  return result;">>,
     <<"}">> >>

\* A variant of the emitter below that renders the helper again for every
\* block, under a name of its own, instead of asking provideFunction_ for
\* the one already rendered.
lists_reverse_perBlock(g, block) ==
  Then(valueToCode(g, block, "LIST", Order.FUNCTION_CALL), LAMBDA l :
  Then(distinctNameIn(l.g, "lists_reverse", PROCEDURE_TYPE), LAMBDA d :
    Val(<<d.name, "(">> \o OrElse(l.code, <<"[]">>) \o <<")">>, Order.FUNCTION_CALL,
        IF d.g.err # NoErr THEN d.g
        ELSE [d.g EXCEPT !.functionNames_ = setKey(@, "lists_reverse", d.name),
                         !.definitions_ =
                           setKey(@, "lists_reverse",
                                  replacePlaceholder(Join(lists_reverse_lines, <<NL>>),
                                                     d.name))])))

lists_reverse(g, block) ==
  Then(valueToCode(g, block, "LIST", Order.FUNCTION_CALL), LAMBDA l :
  Then(provideFunction_(l.g, "lists_reverse", lists_reverse_lines), LAMBDA f :
    Val(<<f.name, "(">> \o OrElse(l.code, <<"[]">>) \o <<")">>, Order.FUNCTION_CALL, f.g)))

(* procedures *)

RECURSIVE variableNames(_, _)
\* generator.getVariableName for each id in turn.
variableNames(g, ids) ==
  IF ids = <<>> THEN [names |-> <<>>, g |-> g]
  ELSE Then(getVariableName(g, Head(ids)), LAMBDA n :
       Then(variableNames(n.g, Tail(ids)), LAMBDA rest :
         [names |-> << <<n.name>> >> \o rest.names, g |-> rest.g]))

\* A variant of the emitter below that stores the definition under the bare
\* function name.
procedures_defnoreturn_plainKey(g, block) ==
  Then(getProcedureName(g, getFieldValue(block, "NAME")), LAMBDA f :
  Then(statementToCode(f.g, block, "STACK"), LAMBDA b :
  Then(variableNames(b.g, getVars(block)), LAMBDA args :
  Then(scrub_(args.g, <<block>>,
              <<"func ", f.name, "(">> \o Join(args.names, <<", ">>)
              \o <<") {", NL>> \o b.code \o <<"}", NL>>,
              FALSE), LAMBDA sc :
    IF sc.g.err # NoErr THEN NullRes(sc.g)
    ELSE NullRes([sc.g EXCEPT !.definitions_ = setKey(@, f.name, sc.code)])))))

procedures_defnoreturn(g, block) ==
  Then(getProcedureName(g, getFieldValue(block, "NAME")), LAMBDA f :
  Then(statementToCode(f.g, block, "STACK"), LAMBDA b :
  Then(variableNames(b.g, getVars(block)), LAMBDA args :
  Then(scrub_(args.g, <<block>>,
              <<"func ", f.name, "(">> \o Join(args.names, <<", ">>)
              \o <<") {", NL>> \o b.code \o <<"}", NL>>,
              FALSE), LAMBDA sc :
    IF sc.g.err # NoErr THEN NullRes(sc.g)
    ELSE NullRes([sc.g EXCEPT !.definitions_ = setKey(@, "%" \o f.name, sc.code)])))))

procedures_defreturn(g, block) ==
  Then(getProcedureName(g, getFieldValue(block, "NAME")), LAMBDA f :
  Then(statementToCode(f.g, block, "STACK"), LAMBDA b :
  Then(valueToCode(b.g, block, "RETURN", Order.NONE), LAMBDA rv :
  Then(IF rv.code # <<>> THEN <<"return ">> \o rv.code \o <<";", NL>>
       ELSE <<"return;", NL>>, LAMBDA xfix2 :
  Then(variableNames(rv.g, getVars(block)), LAMBDA args :
  Then(scrub_(args.g, <<block>>,
              <<"func ", f.name, "(">> \o Join(args.names, <<", ">>)
              \o <<") {", NL>> \o b.code \o xfix2 \o <<"}">>,
              FALSE), LAMBDA sc :
    IF sc.g.err # NoErr THEN NullRes(sc.g)
    ELSE NullRes([sc.g EXCEPT !.definitions_ = setKey(@, "%" \o f.name, sc.code)])))))))

(***************************************************************************)
(* The generator core.                                                     *)
(***************************************************************************)
\* The block types with an emitter in forBlock.
(* conditions, searches and joins *)

RECURSIVE controls_if_pairs(_, _, _)
\* The do-while loop of controls_if from the n-th IF/DO pair on.
controls_if_pairs(g, block, n) ==
  Then(valueToCode(g, block, "IF" \o ToString(n), Order.NONE), LAMBDA c :
  Then(statementToCode(c.g, block, "DO" \o ToString(n)), LAMBDA b :
  Then(IF hasInput(block, "IF" \o ToString(n + 1))
       THEN controls_if_pairs(b.g, block, n + 1)
       ELSE Out(<<>>, b.g), LAMBDA rest :
    Out(<<IF n = 0 THEN "if (" ELSE ") else if (">>
        \o OrElse(c.code, <<"false">>) \o <<") {", NL>>
        \o OrElse(b.code, g.PASS) \o <<"}">> \o rest.code,
        rest.g))))

controls_if(g, block) ==
  Then(controls_if_pairs(g, block, 0), LAMBDA pairs :
  Then(IF hasInput(block, "ELSE")
       THEN statementToCode(pairs.g, block, "ELSE")
       ELSE Out(<<>>, pairs.g), LAMBDA e :
    Stmt(pairs.code
         \o (IF hasInput(block, "ELSE")
             THEN <<" else {", NL>> \o OrElse(e.code, g.PASS) \o <<"}">>
             ELSE <<>>)
         \o <<NL>>,
         e.g)))

controls_whileUntil(g, block) ==
  LET until == getFieldValue(block, "MODE") = "UNTIL"
  IN Then(valueToCode(g, block, "BOOL", Order.LOGICAL_AND), LAMBDA a :
     Then(statementToCode(a.g, block, "DO"), LAMBDA b :
       Stmt(<<"while (">>
            \o (IF until THEN <<"!">> ELSE <<>>) \o OrElse(a.code, <<"false">>)
            \o <<") {", NL>> \o addLoopTrap(b.code, block) \o <<"}", NL>>,
            b.g)))

\* block.itemCount_ of a text_join block, whose inputs are ADD0, ADD1, ...
itemCount_(block) == Len(block.inputs)

RECURSIVE text_join_elements(_, _, _)
\* elements[i] onwards.
text_join_elements(g, block, i) ==
  IF i >= itemCount_(block) THEN [parts |-> <<>>, g |-> g]
  ELSE Then(valueToCode(g, block, "ADD" \o ToString(i), Order.NONE), LAMBDA e :
       Then(text_join_elements(e.g, block, i + 1), LAMBDA rest :
         [parts |-> << OrElse(e.code, <<"\"\"">>) >> \o rest.parts, g |-> rest.g]))

text_join(g, block) ==
  Then(text_join_elements(g, block, 0), LAMBDA elements :
    Val(Join(elements.parts, <<" + ">>), Order.ADDITIVE, elements.g))

\* A variant of the emitter below that adds the one of 1-based indexing
\* twice.
text_indexOf_adjustedTwice(g, block) ==
  LET operator == IF getFieldValue(block, "END") = "FIRST" THEN "indexOf"
                  ELSE "lastIndexOf"
  IN Then(valueToCode(g, block, "FIND", Order.NONE), LAMBDA substring :
     Then(valueToCode(substring.g, block, "VALUE", Order.NONE), LAMBDA text :
       IF text.g.workspace.oneBasedIndex
       THEN Val(OrElse(text.code, <<"\"\"">>) \o <<".", operator, "(">>
                \o OrElse(substring.code, <<"\"\"">>) \o <<")", " + ", "1", " + ", "1">>,
                Order.ADDITIVE, text.g)
       ELSE Val(OrElse(text.code, <<"\"\"">>) \o <<".", operator, "(">>
                \o OrElse(substring.code, <<"\"\"">>) \o <<")">>,
                Order.FUNCTION_CALL, text.g)))

text_indexOf(g, block) ==
  LET operator == IF getFieldValue(block, "END") = "FIRST" THEN "indexOf"
                  ELSE "lastIndexOf"
  IN Then(valueToCode(g, block, "FIND", Order.NONE), LAMBDA substring :
     Then(valueToCode(substring.g, block, "VALUE", Order.NONE), LAMBDA text :
       IF text.g.workspace.oneBasedIndex
       THEN Val(OrElse(text.code, <<"\"\"">>) \o <<".", operator, "(">>
                \o OrElse(substring.code, <<"\"\"">>) \o <<")", " + ", "1">>,
                Order.ADDITIVE, text.g)
       ELSE Val(OrElse(text.code, <<"\"\"">>) \o <<".", operator, "(">>
                \o OrElse(substring.code, <<"\"\"">>) \o <<")">>,
                Order.FUNCTION_CALL, text.g)))

\* The helper of lists_indexOf: the search from the start, or from the end.
lists_indexOf_lines(isFirst) ==
  << <<"func ", FUNCTION_NAME_PLACEHOLDER_, "(list, item) {">>,
     <<IF isFirst THEN "  let i = 0;" ELSE "  let i = len(list) - 1;">>,
     <<IF isFirst THEN "  while (i < len(list)) {" ELSE "  while (i >= 0) {">>,
     <<"    if (list[i] == item) {">>,
     <<"      return i;">>,
     <<"    }">>,
     <<IF isFirst THEN "    i = i + 1;" ELSE "    i = i - 1;">>,
     <<"  }">>,
     <<"  return -1;">>,
     <<"}">> >>

lists_indexOf(g, block) ==
  LET isFirst == getFieldValue(block, "END") = "FIRST"
  IN Then(provideFunction_(g, IF isFirst THEN "lists_indexOf" ELSE "lists_lastIndexOf",
                           lists_indexOf_lines(isFirst)), LAMBDA f :
     Then(valueToCode(f.g, block, "FIND", Order.NONE), LAMBDA item :
     Then(valueToCode(item.g, block, "VALUE", Order.NONE), LAMBDA list :
       Val(<<f.name, "(">> \o OrElse(list.code, <<"[]">>) \o <<", ">>
           \o OrElse(item.code, <<"null">>) \o <<")">>
           \o (IF list.g.workspace.oneBasedIndex THEN <<" + ", "1">> ELSE <<>>),
           Order.FUNCTION_CALL, list.g))))

KnownTypes ==
  {"math_number", "math_arithmetic", "math_random_float", "logic_compare",
   "logic_operation", "logic_negate", "logic_boolean",
   "variables_get_dynamic", "variables_set_dynamic", "controls_repeat_ext",
   "controls_forEach", "text_print", "text_charAt", "lists_create_empty",
   "lists_getIndex", "lists_reverse", "procedures_defnoreturn",
   "math_single", "text_trim", "procedures_defreturn",
   "controls_if", "controls_whileUntil", "text_join", "text_indexOf",
   "lists_indexOf"}

\* generator.forBlock[block.type](block, generator)
forBlock(g, block) ==
  CASE block.type = "math_number" -> math_number(g, block)
    [] block.type = "math_arithmetic" -> math_arithmetic(g, block)
    [] block.type = "math_random_float" -> math_random_float(g, block)
    [] block.type = "logic_compare" -> logic_compare(g, block)
    [] block.type = "logic_operation" -> logic_operation(g, block)
    [] block.type = "logic_negate" -> logic_negate(g, block)
    [] block.type = "logic_boolean" -> logic_boolean(g, block)
    [] block.type = "variables_get_dynamic" -> variables_get_dynamic(g, block)
    [] block.type = "variables_set_dynamic" -> variables_set_dynamic(g, block)
    [] block.type = "controls_repeat_ext" -> controls_repeat_ext(g, block)
    [] block.type = "controls_forEach" -> controls_forEach(g, block)
    [] block.type = "text_print" -> text_print(g, block)
    [] block.type = "text_charAt" -> text_charAt(g, block)
    [] block.type = "lists_create_empty" -> lists_create_empty(g, block)
    [] block.type = "lists_getIndex" -> lists_getIndex(g, block)
    [] block.type = "lists_reverse" -> lists_reverse(g, block)
    [] block.type = "procedures_defnoreturn" -> procedures_defnoreturn(g, block)
    [] block.type = "math_single" -> math_single(g, block)
    [] block.type = "text_trim" -> text_trim(g, block)
    [] block.type = "procedures_defreturn" -> procedures_defreturn(g, block)
    [] block.type = "controls_if" -> controls_if(g, block)
    [] block.type = "controls_whileUntil" -> controls_whileUntil(g, block)
    [] block.type = "text_join" -> text_join(g, block)
    [] block.type = "text_indexOf" -> text_indexOf(g, block)
    [] block.type = "lists_indexOf" -> lists_indexOf(g, block)

\* The comment lines scrub_ emits for one block.
commentOf(block) ==
  IF block.comment # ""
  THEN prefixLines(<<wrap(block.comment, 57), NL>>, "// ")
  ELSE <<>>

RECURSIVE valueComments(_)
\* The comments of the blocks connected to the value inputs, in input order.
valueComments(inputs) ==
  IF inputs = <<>> THEN <<>>
  ELSE (IF Head(inputs).type = "VALUE" /\ Head(inputs).target # <<>>
        THEN commentOf(Head(inputs).target[1]) ELSE <<>>)
       \o valueComments(Tail(inputs))

\* A variant of the operator below that collects the comments of a block
\* whatever its output is connected to.
commentCode_inline(block) == commentOf(block) \o valueComments(block.inputs)

\* The comments scrub_ collects for a block: none for a block plugged into
\* a value input, whose comment its parent collects.
commentCode(block) ==
  IF ~block.plugged THEN commentOf(block) \o valueComments(block.inputs) ELSE <<>>

\* What scrub_ returns: the comments, the block's code, the next block's code.
scrub_joined(comments, code, nextCode) ==
  Out(comments \o code \o nextCode.code, nextCode.g)

\* SpliceGenerator.scrub_ for the first block of the chain; the rest of the
\* chain is what its next connection leads to.
scrub_(g, chain, code, thisOnly) ==
  scrub_joined(commentCode(Head(chain)), code,
               IF thisOnly THEN Stmt(<<>>, g) ELSE blockToCode(g, Tail(chain), FALSE))

\* blockToCode once the emitter and scrub_ have returned: the emitter's kind
\* and order with the scrubbed code.
blockToCode_scrubbed(r, sc) ==
  [kind |-> r.kind, code |-> sc.code, order |-> r.order, g |-> sc.g]

\* blockToCode once the emitter has returned r.
blockToCode_emitted(r, chain, opt_thisOnly) ==
  IF r.g.err # NoErr THEN Stmt(<<>>, r.g)
  ELSE IF r.kind = "null" THEN Stmt(<<>>, r.g)
  ELSE blockToCode_scrubbed(r, scrub_(r.g, chain, r.code, opt_thisOnly))

\* CodeGenerator.blockToCode for the first block of the chain.
blockToCode(g, chain, opt_thisOnly) ==
  IF g.err # NoErr THEN Stmt(<<>>, g)
  ELSE IF ~g.isInitialized
  THEN Stmt(<<>>, Fail(g, "usage: generator is not initialized"))
  ELSE IF chain = <<>> THEN Stmt(<<>>, g)
  ELSE IF Head(chain).type \notin KnownTypes
  THEN Stmt(<<>>, Fail(g, "generator does not know how to generate code for block type"))
  ELSE blockToCode_emitted(forBlock(g, Head(chain)), chain, opt_thisOnly)

\* valueToCode once blockToCode has returned r for the connected block.
valueToCode_generated(r, outerOrder) ==
  IF r.g.err # NoErr THEN Out(<<>>, r.g)
  ELSE IF r.kind # "value" \/ r.code = <<>>
  THEN Out(<<>>, Fail(r.g, "TypeError: expecting valid order and code"))
  ELSE IF parensNeeded(outerOrder, r.order)
  THEN Out(<<"(">> \o r.code \o <<")">>, r.g)
  ELSE Out(r.code, r.g)

\* CodeGenerator.valueToCode
valueToCode(g, block, name, outerOrder) ==
  IF g.err # NoErr THEN Out(<<>>, g)
  ELSE IF ~g.isInitialized
  THEN Out(<<>>, Fail(g, "usage: generator is not initialized"))
  ELSE IF ~hasInput(block, name)
  THEN Out(<<>>, Fail(g, "ReferenceError: input does not exist"))
  ELSE IF getInputTarget(block, name) = <<>> THEN Out(<<>>, g)
  ELSE valueToCode_generated(blockToCode(g, getInputTarget(block, name), FALSE),
                             outerOrder)

\* statementToCode once blockToCode has returned r for the connected stack.
statementToCode_generated(r) ==
  IF r.g.err # NoErr THEN Out(<<>>, r.g)
  ELSE IF r.kind # "statement"
  THEN Out(<<>>, Fail(r.g, "TypeError: expecting code from statement block"))
  ELSE IF r.code # <<>> THEN Out(prefixLines(r.code, INDENT), r.g)
  ELSE Out(r.code, r.g)

\* CodeGenerator.statementToCode
statementToCode(g, block, name) ==
  IF g.err # NoErr THEN Out(<<>>, g)
  ELSE IF ~g.isInitialized
  THEN Out(<<>>, Fail(g, "usage: generator is not initialized"))
  ELSE IF ~hasInput(block, name)
  THEN Out(<<>>, Fail(g, "ReferenceError: input does not exist"))
  ELSE statementToCode_generated(blockToCode(g, getInputTarget(block, name), FALSE))

\* SpliceGenerator.scrubNakedValue
scrubNakedValue(line) == line \o <<";", NL>>

\* CodeGenerator.init: fresh definitions_ and functionNames_.
superInit(g) == [g EXCEPT !.definitions_ = <<>>, !.functionNames_ = <<>>]

\* CodeGenerator.finish as SpliceGenerator.finish relies on it: a check of
\* the name database that changes nothing.
superFinish(g) == g

RECURSIVE defvarsOf(_, _)
\* The 'let <name> = "";' line of each variable id in turn.
defvarsOf(g, ids) ==
  IF ids = <<>> THEN [lines |-> <<>>, g |-> g]
  ELSE Then(getVariableName(g, Head(ids)), LAMBDA n :
       Then(defvarsOf(n.g, Tail(ids)), LAMBDA rest :
         [lines |-> << <<"let ", n.name, " = \"\";">> >> \o rest.lines, g |-> rest.g]))

\* A variant of init below that keeps the name database of the pass before.
init_keepNames(g, workspace) ==
  LET g1 == [superInit(g) EXCEPT !.workspace = workspace]
      names0 == IF g1.nameDB_.created THEN g1.nameDB_
                ELSE [NewNames EXCEPT !.created = TRUE]
      names1 == populateVariables(names0, workspace)
      names2 == populateProcedures(names1, workspace)
      g2 == [g1 EXCEPT !.nameDB_ = names2, !.PASS = <<INDENT \o "// pass", NL>>]
      dv == defvarsOf(g2, allUsedVarModels(workspace))
  IN [dv.g EXCEPT !.definitions_ = setKey(@, "variables", Join(dv.lines, <<NL>>)),
                  !.isInitialized = TRUE]

\* A variant of init below that starts without the inherited init, so that
\* the definitions of the pass before stay.
init_keepDefinitions(g, workspace) ==
  LET g1 == [g EXCEPT !.workspace = workspace]
      names0 == IF g1.nameDB_.created THEN g1.nameDB_ ELSE NewNames
      names1 == populateVariables(resetNames(names0), workspace)
      names2 == populateProcedures(names1, workspace)
      g2 == [g1 EXCEPT !.nameDB_ = names2, !.PASS = <<INDENT \o "// pass", NL>>]
      dv == defvarsOf(g2, allUsedVarModels(workspace))
  IN [dv.g EXCEPT !.definitions_ = setKey(@, "variables", Join(dv.lines, <<NL>>)),
                  !.isInitialized = TRUE]

\* A variant of init below that declares every variable of the workspace.
init_allVariables(g, workspace) ==
  LET g1 == [superInit(g) EXCEPT !.workspace = workspace]
      names1 == populateVariables(resetNames(g1.nameDB_), workspace)
      names2 == populateProcedures(names1, workspace)
      g2 == [g1 EXCEPT !.nameDB_ = names2, !.PASS = <<INDENT \o "// pass", NL>>]
      dv == defvarsOf(g2, [i \in 1..Len(workspace.variables) |-> workspace.variables[i].id])
  IN [dv.g EXCEPT !.definitions_ = setKey(@, "variables", Join(dv.lines, <<NL>>)),
                  !.isInitialized = TRUE]

\* SpliceGenerator.init
init(g, workspace) ==
  LET g1 == [superInit(g) EXCEPT !.workspace = workspace]
      names0 == IF g1.nameDB_.created THEN g1.nameDB_ ELSE NewNames
      names1 == populateVariables(resetNames(names0), workspace)
      names2 == populateProcedures(names1, workspace)
      g2 == [g1 EXCEPT !.nameDB_ = names2, !.PASS = <<INDENT \o "// pass", NL>>]
      dv == defvarsOf(g2, allUsedVarModels(workspace))
  IN [dv.g EXCEPT !.definitions_ = setKey(@, "variables", Join(dv.lines, <<NL>>)),
                  !.isInitialized = TRUE]

\* A variant of finish below that leaves the generator initialized.
finish_stayInitialized(g, code) ==
  LET definitions == values(g.definitions_)
      g1 == superFinish(g)
  IN Out(Join(definitions, <<NL, NL>>) \o <<NL, NL>> \o code, g1)

\* A variant of finish below that leaves out empty definitions.
finish_skipEmpty(g, code) ==
  LET definitions == SelectSeq(values(g.definitions_), LAMBDA d : d # <<>>)
      g1 == [superFinish(g) EXCEPT !.isInitialized = FALSE]
  IN Out(Join(definitions, <<NL, NL>>) \o <<NL, NL>> \o code, g1)

\* SpliceGenerator.finish
finish(g, code) ==
  LET definitions == values(g.definitions_)
      g1 == [superFinish(g) EXCEPT !.isInitialized = FALSE]
  IN Out(Join(definitions, <<NL, NL>>) \o <<NL, NL>> \o code, g1)

RECURSIVE topLines(_, _)
\* The loop of CodeGenerator.workspaceToCode: the code of each top block, a
\* naked value closed by scrubNakedValue, empty lines left out.
topLines(g, tops) ==
  IF tops = <<>> THEN [lines |-> <<>>, g |-> g]
  ELSE Then(blockToCode(g, Head(tops), FALSE), LAMBDA r :
       Then(IF r.code # <<>> /\ r.kind = "value"
            THEN scrubNakedValue(r.code) ELSE r.code, LAMBDA line :
       Then(topLines(r.g, Tail(tops)), LAMBDA rest :
         [lines |-> (IF line # <<>> THEN <<line>> ELSE <<>>) \o rest.lines,
          g |-> rest.g])))

blocksToCode(g, tops) ==
  Then(topLines(g, tops), LAMBDA t : Out(Join(t.lines, <<NL>>), t.g))

(***************************************************************************)
(* Block trees the model generates code from.                              *)
(***************************************************************************)
Num(n) == Blk("math_number", [NUM |-> n], NoInputs)
Bool(b) == Blk("logic_boolean", [BOOL |-> b], NoInputs)
VarGet(id) == Blk("variables_get_dynamic", [VAR |-> id], NoInputs)
VarSet(id, v) == Blk("variables_set_dynamic", [VAR |-> id], <<V("VALUE", v)>>)
Arith(op, a, b) == Blk("math_arithmetic", [OP |-> op], <<V("A", a), V("B", b)>>)
Compare(op, a, b) == Blk("logic_compare", [OP |-> op], <<V("A", a), V("B", b)>>)
Logic(op, a, b) == Blk("logic_operation", [OP |-> op], <<V("A", a), V("B", b)>>)
Negate(a) == Blk("logic_negate", NoFields, <<V("BOOL", a)>>)
RandomFloat == Blk("math_random_float", NoFields, NoInputs)
RepeatExt(times, do) ==
  Blk("controls_repeat_ext", NoFields, <<V("TIMES", times), S("DO", do)>>)
ForEach(id, list, do) ==
  Blk("controls_forEach", [VAR |-> id], <<V("LIST", list), S("DO", do)>>)
EmptyList == Blk("lists_create_empty", NoFields, NoInputs)
Reverse(l) == Blk("lists_reverse", NoFields, <<V("LIST", l)>>)
GetIndex(l, at) == Blk("lists_getIndex", NoFields, <<V("VALUE", l), V("AT", at)>>)
CharAt(where, t, at) ==
  Blk("text_charAt", [WHERE |-> where], <<V("VALUE", t), V("AT", at)>>)
PrintBlk(t) == Blk("text_print", NoFields, <<V("TEXT", t)>>)
ProcDef(name, args, stack) ==
  Blk("procedures_defnoreturn", [NAME |-> name, ARGS |-> args], <<S("STACK", stack)>>)
ProcDefReturn(name, args, stack, return) ==
  Blk("procedures_defreturn", [NAME |-> name, ARGS |-> args],
      <<S("STACK", stack), V("RETURN", return)>>)
Single(op, a) == Blk("math_single", [OP |-> op], <<V("NUM", a)>>)
Trim(mode, t) == Blk("text_trim", [MODE |-> mode], <<V("TEXT", t)>>)

\* controls_if with the IF/DO pairs given and no ELSE input; IfElse adds one.
If(pairs) ==
  Blk("controls_if", NoFields,
      [k \in 1..(2 * Len(pairs)) |->
         IF k % 2 = 1 THEN V("IF" \o ToString((k - 1) \div 2), pairs[(k + 1) \div 2][1])
         ELSE S("DO" \o ToString((k - 2) \div 2), pairs[k \div 2][2])])
IfElse(pairs, else) ==
  [If(pairs) EXCEPT !.inputs = Append(@, S("ELSE", else))]
WhileUntil(mode, bool, do) ==
  Blk("controls_whileUntil", [MODE |-> mode], <<V("BOOL", bool), S("DO", do)>>)
TextJoin(items) ==
  Blk("text_join", NoFields,
      [i \in 1..Len(items) |-> V("ADD" \o ToString(i - 1), items[i])])
TextIndexOf(end, value, find) ==
  Blk("text_indexOf", [END |-> end], <<V("VALUE", value), V("FIND", find)>>)
ListsIndexOf(end, value, find) ==
  Blk("lists_indexOf", [END |-> end], <<V("VALUE", value), V("FIND", find)>>)

\* The block with a developer comment attached.
Commented(block, text) == [block EXCEPT !.comment = text]

Variable(id, name) == [id |-> id, name |-> name]

\* The workspaces a pass may be run on: their variables and top-level chains.
Programs ==
  << \* 1: x used, y declared only; a - (b - c); a loop around a reverse.
     [variables |-> <<Variable("v1", "x"), Variable("v2", "y")>>,
      tops |-> << << VarSet("v1", <<Arith("MINUS", <<Num("1")>>,
                                        <<Arith("MINUS", <<Num("2")>>, <<Num("3")>>)>>)>>),
                     RepeatExt(<<Num("3")>>,
                               <<VarSet("v1", <<Reverse(<<EmptyList>>)>>)>>) >> >>],
     \* 2: a user variable named count, nested loops, two reverse blocks.
     [variables |-> <<Variable("v1", "count"), Variable("v2", "x")>>,
      tops |-> << << RepeatExt(<<Arith("ADD", <<VarGet("v2")>>, <<Num("1")>>)>>,
                      <<RepeatExt(<<>>,
                          <<VarSet("v1", <<Reverse(<<Reverse(<<EmptyList>>)>>)>>)>>)>>) >> >>],
     \* 3: no variable; a procedure whose body needs the helper, then a
     \*    statement that needs it again.
     [variables |-> <<>>,
      tops |-> << << ProcDef("proc", <<>>, <<PrintBlk(<<Reverse(<<EmptyList>>)>>)>>) >>,
                  << PrintBlk(<<Reverse(<<EmptyList>>)>>) >> >>],
     \* 4: y is met before x by the usage scan; z is never used.
     [variables |-> <<Variable("v1", "x"), Variable("v2", "y"), Variable("v3", "my list")>>,
      tops |-> << << VarSet("v2", <<VarGet("v1")>>),
                     VarSet("v1", <<VarGet("v2")>>) >> >>],
     \* 5: the empty workspace.
     [variables |-> <<>>, tops |-> <<>>],
     \* 6: a naked value with three reverse blocks, and a for-each loop.
     [variables |-> <<Variable("v1", "list")>>,
      tops |-> << << Reverse(<<Reverse(<<Reverse(<<VarGet("v1")>>)>>)>>) >>,
                  << ForEach("v1", <<EmptyList>>, <<>>) >> >>],
     \* 7: a procedure and a variable of the same name; indexing.
     [variables |-> <<Variable("v1", "proc"), Variable("v2", "math")>>,
      tops |-> << << ProcDef("proc", <<"v1">>, <<>>) >>,
                  << VarSet("v2", <<GetIndex(<<VarGet("v1")>>, <<Num("1")>>)>>) >> >>] >>

\* The workspaces init is called with: each program with 0-based indexing,
\* and the indexing program with 1-based indexing as well.
Workspace(p, oneBased) ==
  [variables |-> Programs[p].variables, tops |-> Programs[p].tops,
   oneBasedIndex |-> oneBased]

Workspaces ==
  [p \in 1..Len(Programs) |-> Workspace(p, FALSE)] \o <<Workspace(7, TRUE)>>

WorkspaceIds == 1..Len(Workspaces)

NoWorkspace == [variables |-> <<>>, tops |-> <<>>, oneBasedIndex |-> FALSE]

(***************************************************************************)
(* State.                                                                  *)
(***************************************************************************)
VARIABLES
  isInitialized,   \* SpliceGenerator.isInitialized
  definitions_,    \* the Definitions Table
  functionNames_,  \* helper key -> allocated function name
  nameDB_,         \* the name database
  PASS,            \* SpliceGenerator.PASS
  workspace,       \* the workspace of the latest init
  code,            \* the main code of the latest top-level loop
  output,          \* what the latest finish returned
  stage,           \* progress of a whole pass: "none", "init", "code", "done"
  prev,            \* the whole pass completed before the current one
  passes,          \* number of init calls so far
  lifecycle,       \* the latest of the init and finish calls
  lastCall         \* the latest call: its arguments, the generator before, the result

vars == <<isInitialized, definitions_, functionNames_, nameDB_, PASS, workspace,
          code, output, stage, prev, passes, lifecycle, lastCall>>

\* The generator as the record the operations thread.
G ==
  [isInitialized |-> isInitialized, definitions_ |-> definitions_,
   functionNames_ |-> functionNames_, nameDB_ |-> nameDB_, PASS |-> PASS,
   workspace |-> workspace, err |-> NoErr]

\* new SpliceGenerator(): splice_generator.ts:87-98 and the field
\* initialisers of the class.
NewGenerator ==
  [isInitialized |-> FALSE, definitions_ |-> <<>>, functionNames_ |-> <<>>,
   nameDB_ |-> NewNames, PASS |-> <<>>, workspace |-> NoWorkspace, err |-> NoErr]

\* The generator's fields after a call that left it as g.
Install(g) ==
  /\ isInitialized' = g.isInitialized
  /\ definitions_' = g.definitions_
  /\ functionNames_' = g.functionNames_
  /\ nameDB_' = g.nameDB_
  /\ PASS' = g.PASS
  /\ workspace' = g.workspace

NoBlock == Blk("", NoFields, NoInputs)

\* A record of one call: the operation and its arguments.
Args(op, block, name, outer) ==
  [op |-> op, block |-> block, name |-> name, outer |-> outer,
   delta |-> Undefined, negate |-> FALSE,
   next |-> <<>>, given |-> <<>>, thisOnly |-> FALSE]

\* A record of one call: its arguments, the generator before it, the code
\* and order it returned and the error it raised.
Call(args, g0, r, order, err) ==
  [op |-> args.op, block |-> args.block, name |-> args.name, outer |-> args.outer,
   delta |-> args.delta, negate |-> args.negate,
   next |-> args.next, given |-> args.given, thisOnly |-> args.thisOnly,
   g0 |-> g0, code |-> r, order |-> order, err |-> err]

NoCall == Call(Args("none", NoBlock, "", 0), NewGenerator, <<>>, 0, NoErr)

NoPrev == [valid |-> FALSE, workspace |-> NoWorkspace, output |-> <<>>]

Init ==
  /\ isInitialized = NewGenerator.isInitialized
  /\ definitions_ = NewGenerator.definitions_
  /\ functionNames_ = NewGenerator.functionNames_
  /\ nameDB_ = NewGenerator.nameDB_
  /\ PASS = NewGenerator.PASS
  /\ workspace = NewGenerator.workspace
  /\ code = <<>>
  /\ output = <<>>
  /\ stage = "none"
  /\ prev = NoPrev
  /\ passes = 0
  /\ lifecycle = "none"
  /\ lastCall = NoCall

(***************************************************************************)
(* Actions: one per call a host makes on the generator.                    *)
(***************************************************************************)
\* What a call leaves behind: the generator as the call left it, and the
\* record of the call with the code it returned, none after an error.
Returned(args, r) ==
  /\ Install(r.g)
  /\ lastCall' = Call(args, G,
                      IF r.g.err = NoErr THEN r.code ELSE <<>>,
                      IF "order" \in DOMAIN r THEN r.order ELSE 0,
                      r.g.err)

\* generator.init(workspace)
CallInit(w) ==
  /\ passes < MaxPasses
  /\ Returned(Args("init", NoBlock, "", 0), Out(<<>>, init(G, Workspaces[w])))
  /\ passes' = passes + 1
  /\ lifecycle' = "init"
  /\ stage' = "init"
  /\ prev' = IF stage = "done"
             THEN [valid |-> TRUE, workspace |-> workspace, output |-> output]
             ELSE NoPrev
  /\ code' = <<>>
  /\ UNCHANGED output

\* The loop of workspaceToCode over the top blocks of the workspace.
CallBlocksToCode ==
  /\ stage = "init"
  /\ Returned(Args("blocksToCode", NoBlock, "", 0), blocksToCode(G, workspace.tops))
  /\ code' = lastCall'.code
  /\ stage' = "code"
  /\ UNCHANGED <<output, prev, passes, lifecycle>>

\* generator.finish(code)
CallFinish ==
  /\ Returned(Args("finish", NoBlock, "", 0), finish(G, code))
  /\ output' = lastCall'.code
  /\ lifecycle' = "finish"
  /\ stage' = IF stage = "code" THEN "done" ELSE "none"
  /\ UNCHANGED <<code, prev, passes>>

\* forBlock[block.type](block, generator), called directly.
CallEmitter(block) ==
  /\ Returned(Args("emitter", block, "", 0), forBlock(G, block))
  /\ stage' = "none"
  /\ UNCHANGED <<code, output, prev, passes, lifecycle>>

\* generator.blockToCode(block), called directly.
CallBlockToCode(block) ==
  /\ Returned(Args("blockToCode", block, "", 0), blockToCode(G, <<block>>, FALSE))
  /\ stage' = "none"
  /\ UNCHANGED <<code, output, prev, passes, lifecycle>>

\* generator.valueToCode(block, name, outerOrder), called directly.
CallValueToCode(block, name, outerOrder) ==
  /\ Returned(Args("valueToCode", block, name, outerOrder),
              valueToCode(G, block, name, outerOrder))
  /\ stage' = "none"
  /\ UNCHANGED <<code, output, prev, passes, lifecycle>>

\* generator.statementToCode(block, name), called directly.
CallStatementToCode(block, name) ==
  /\ Returned(Args("statementToCode", block, name, 0),
              statementToCode(G, block, name))
  /\ stage' = "none"
  /\ UNCHANGED <<code, output, prev, passes, lifecycle>>

\* generator.getAdjusted(block, atId, opt_delta, opt_negate, opt_order),
\* called directly.
CallGetAdjusted(block, atId, opt_delta, opt_negate, opt_order) ==
  /\ Returned([Args("getAdjusted", block, atId, opt_order)
                 EXCEPT !.delta = opt_delta, !.negate = opt_negate],
              getAdjusted(G, block, atId, opt_delta, opt_negate, opt_order))
  /\ stage' = "none"
  /\ UNCHANGED <<code, output, prev, passes, lifecycle>>

\* generator.scrub_(block, code, thisOnly), called directly on the first
\* block of the chain with the code given for it.
CallScrub(chain, given, thisOnly) ==
  /\ Returned([Args("scrub_", Head(chain), "", 0)
                 EXCEPT !.next = Tail(chain), !.given = given, !.thisOnly = thisOnly],
              scrub_(G, chain, given, thisOnly))
  /\ stage' = "none"
  /\ UNCHANGED <<code, output, prev, passes, lifecycle>>

\* The helper lines a host asks provideFunction_ to render for a key.
helperLines(key) ==
  IF key = "lists_reverse" THEN lists_reverse_lines ELSE text_random_letter_lines

\* The name provideFunction_ returned, as the code of the call's record.
named(f) == Out(<<f.name>>, f.g)

\* generator.provideFunction_(desiredName, lines), called directly.
CallProvideFunction(key) ==
  /\ Returned(Args("provideFunction_", NoBlock, key, 0),
              named(provideFunction_(G, key, helperLines(key))))
  /\ stage' = "none"
  /\ UNCHANGED <<code, output, prev, passes, lifecycle>>

(***************************************************************************)
(* Blocks a host hands to an emitter or an entry point on its own.         *)
(***************************************************************************)
LooseBlocks ==
  { Num("1"), RandomFloat, EmptyList, Bool("TRUE"),
    Reverse(<<EmptyList>>),
    Reverse(<<Reverse(<<EmptyList>>)>>),
    Arith("MINUS", <<Num("1")>>, <<Num("2")>>),
    PrintBlk(<<Num("1")>>) }

\* A loop whose body statementToCode is asked for.
LoopBlocks == { RepeatExt(<<>>, <<PrintBlk(<<>>)>>) }

\* The value inputs of a block, by name.
valueInputs(block) ==
  {block.inputs[i].name : i \in {j \in 1..Len(block.inputs) : block.inputs[j].type = "VALUE"}}

\* The statement inputs of a block, by name.
statementInputs(block) ==
  {block.inputs[i].name :
     i \in {j \in 1..Len(block.inputs) : block.inputs[j].type = "STATEMENT"}}

\* The binary operators: the emitter and the option of its OP field.
BinaryOperators ==
  ({"math_arithmetic"} \X DOMAIN math_arithmetic_OPERATORS)
    \cup ({"logic_compare"} \X DOMAIN logic_compare_OPERATORS)
    \cup ({"logic_operation"} \X {"AND", "OR"})

Binary(operator, a, b) ==
  Blk(operator[1], [OP |-> operator[2]], <<V("A", a), V("B", b)>>)

\* Two nested binary-operator blocks over the numbers 1, 2 and 3: the inner
\* block as the left operand, and as the right operand.
NestedLeft(outer, inner) ==
  Binary(outer, <<Binary(inner, <<Num("1")>>, <<Num("2")>>)>>, <<Num("3")>>)

NestedRight(outer, inner) ==
  Binary(outer, <<Num("1")>>, <<Binary(inner, <<Num("2")>>, <<Num("3")>>)>>)

NestedBlocks ==
  {NestedLeft(o, i) : o \in BinaryOperators, i \in BinaryOperators}
    \cup {NestedRight(o, i) : o \in BinaryOperators, i \in BinaryOperators}

\* Chains of calls and of member accesses.
ChainedBlocks ==
  { Reverse(<<Reverse(<<EmptyList>>)>>),
    Reverse(<<GetIndex(<<EmptyList>>, <<Num("1")>>)>>),
    GetIndex(<<GetIndex(<<EmptyList>>, <<Num("1")>>)>>, <<Num("2")>>),
    GetIndex(<<Reverse(<<EmptyList>>)>>, <<Num("1")>>),
    Negate(<<Negate(<<Bool("TRUE")>>)>>) }

\* A block whose input IN holds one child of every order an emitter returns.
Holder(child) == Blk("holder", NoFields, <<V("IN", <<child>>)>>)

HeldBlocks ==
  { Num("1"),
    GetIndex(<<EmptyList>>, <<Num("1")>>),
    RandomFloat,
    Arith("POWER", <<Num("1")>>, <<Num("2")>>),
    Arith("MULTIPLY", <<Num("1")>>, <<Num("2")>>),
    Arith("MINUS", <<Num("1")>>, <<Num("2")>>),
    Compare("LT", <<Num("1")>>, <<Num("2")>>),
    Negate(<<Bool("TRUE")>>),
    Logic("AND", <<Bool("TRUE")>>, <<Bool("FALSE")>>),
    Logic("OR", <<Bool("TRUE")>>, <<Bool("FALSE")>>) }

\* Blocks with an index input AT: a number, a variable, a sum, nothing.
IndexedBlocks ==
  { GetIndex(<<EmptyList>>, <<Num("0")>>),
    GetIndex(<<EmptyList>>, <<Num("1")>>),
    GetIndex(<<EmptyList>>, <<Num("5")>>),
    GetIndex(<<EmptyList>>, <<VarGet("v1")>>),
    GetIndex(<<EmptyList>>, <<Arith("ADD", <<Num("1")>>, <<Num("2")>>)>>),
    GetIndex(<<EmptyList>>, <<>>) }

\* The optional arguments getAdjusted is called with.
Deltas == {Undefined, 1}
OptOrders == {Undefined, Order.ATOMIC, Order.MULTIPLICATIVE, Order.ADDITIVE}

\* Whole passes, and helper requests from outside a pass.
Next ==
  \/ \E w \in WorkspaceIds : CallInit(w)
  \/ CallBlocksToCode
  \/ CallFinish
  \/ CallProvideFunction("lists_reverse")

Spec == Init /\ [][Next]_vars

\* The entry points and emitters called one by one, in and out of a pass.
NextCalls ==
  \/ \E w \in {5, 7} : CallInit(w)
  \/ CallFinish
  \/ \E block \in LooseBlocks : CallEmitter(block)
  \/ \E block \in LooseBlocks : CallBlockToCode(block)
  \/ \E block \in LooseBlocks :
       \E name \in valueInputs(block) :
         \E o \in {Order.NONE, Order.FUNCTION_CALL} : CallValueToCode(block, name, o)
  \/ \E block \in LoopBlocks :
       \E name \in statementInputs(block) : CallStatementToCode(block, name)
  \/ \E key \in {"lists_reverse", "text_random_letter"} : CallProvideFunction(key)

SpecCalls == Init /\ [][NextCalls]_vars

\* Every context order around a child of every order an emitter returns.
NextWrap ==
  \/ CallInit(7)
  \/ \E child \in HeldBlocks :
       \E o \in OrderValues : CallValueToCode(Holder(child), "IN", o)

SpecWrap == Init /\ [][NextWrap]_vars

\* The emitters of nested operators and of chained calls and accesses.
NextNested ==
  \/ CallInit(7)
  \/ \E block \in NestedBlocks \cup ChainedBlocks : CallEmitter(block)

SpecNested == Init /\ [][NextNested]_vars

\* Index adjustment with 0-based and with 1-based indexing.
NextIndex ==
  \/ \E w \in {7, 8} : CallInit(w)
  \/ \E block \in IndexedBlocks :
       \E d \in Deltas : \E n \in BOOLEAN : \E o \in OptOrders :
         CallGetAdjusted(block, "AT", d, n, o)

SpecIndex == Init /\ [][NextIndex]_vars

\* Blocks whose option field holds a known option, and one it does not know.
OptionBlocks ==
  { Arith("ADD", <<Num("1")>>, <<Num("2")>>),
    Arith("XOR", <<Num("1")>>, <<Num("2")>>),
    Compare("EQ", <<Num("1")>>, <<Num("2")>>),
    Compare("XOR", <<Num("1")>>, <<Num("2")>>),
    Logic("AND", <<Bool("TRUE")>>, <<Bool("FALSE")>>),
    Logic("XOR", <<Bool("TRUE")>>, <<Bool("FALSE")>>),
    Single("ABS", <<Num("1")>>),
    Single("CUBE", <<Num("1")>>),
    Trim("BOTH", <<VarGet("v1")>>),
    Trim("MIDDLE", <<VarGet("v1")>>) }

\* Blocks with value inputs that nothing is connected to.
OpenBlocks ==
  { Arith("ADD", <<>>, <<>>),
    Arith("MINUS", <<Num("1")>>, <<>>),
    Arith("MULTIPLY", <<>>, <<Num("2")>>),
    Compare("LT", <<>>, <<>>),
    Compare("EQ", <<>>, <<Num("2")>>),
    Compare("GTE", <<Num("1")>>, <<>>),
    Logic("AND", <<>>, <<>>),
    Logic("AND", <<>>, <<Bool("FALSE")>>),
    Logic("AND", <<Bool("FALSE")>>, <<>>),
    Logic("OR", <<>>, <<>>),
    Logic("OR", <<>>, <<Bool("TRUE")>>),
    Logic("OR", <<Bool("TRUE")>>, <<>>),
    Negate(<<>>),
    Single("NEG", <<>>),
    Single("ROOT", <<>>),
    Trim("LEFT", <<>>),
    PrintBlk(<<>>),
    Reverse(<<>>),
    VarSet("v1", <<>>),
    GetIndex(<<>>, <<Num("1")>>),
    GetIndex(<<EmptyList>>, <<>>),
    CharAt("FROM_START", <<>>, <<Num("1")>>),
    CharAt("FROM_END", <<VarGet("v1")>>, <<>>) }

\* Negations of positive and negative numbers, of negations, of a
\* difference and of an element, and of nothing.
SignBlocks ==
  { Single("NEG", <<Num("3")>>),
    Single("NEG", <<Num("-3")>>),
    Single("NEG", <<Single("NEG", <<Num("3")>>)>>),
    Single("NEG", <<Single("NEG", <<Single("NEG", <<Num("-1")>>)>>)>>),
    Single("NEG", <<Arith("MINUS", <<Num("-1")>>, <<Num("2")>>)>>),
    Single("NEG", <<GetIndex(<<Num("-3")>>, <<Num("0")>>)>>),
    Single("NEG", <<Single("ABS", <<Num("-1")>>)>>),
    Arith("MINUS", <<Num("1")>>, <<Single("NEG", <<Num("-1")>>)>>) }

\* Indexing blocks in every where-mode, known or not, and in none, over the
\* index 1.
WhereBlocks ==
  {CharAt(w, <<VarGet("v1")>>, <<Num("1")>>) :
     w \in {"FROM_START", "FROM_END", "FIRST", "LAST", "MIDDLE", "", "RANDOM"}}
    \cup {[GetIndex(<<VarGet("v1")>>, <<Num("1")>>) EXCEPT !.fields = [WHERE |-> w]] :
            w \in {"FROM_START", "FROM_END", "FIRST", "LAST", "MIDDLE", ""}}

\* The emitters called one by one on blocks of every shape, with 0-based
\* and with 1-based indexing.
NextBlocks ==
  \/ \E w \in {7, 8} : CallInit(w)
  \/ \E block \in OptionBlocks \cup OpenBlocks \cup SignBlocks \cup WhereBlocks :
       CallEmitter(block)

SpecBlocks == Init /\ [][NextBlocks]_vars

\* Procedure definitions: with and without a return value, a body and
\* arguments; one that shares its name with a variable, one whose body needs
\* a helper.
ProcedureBlocks ==
  { ProcDef("proc", <<"v1">>, <<>>),
    ProcDef("proc", <<>>, <<PrintBlk(<<Num("1")>>)>>),
    ProcDef("other", <<>>, <<PrintBlk(<<Reverse(<<EmptyList>>)>>)>>),
    ProcDefReturn("proc", <<>>, <<>>, <<>>),
    ProcDefReturn("proc", <<"v1">>, <<>>, <<VarGet("v1")>>),
    ProcDefReturn("other", <<>>, <<PrintBlk(<<Num("1")>>)>>, <<>>),
    ProcDefReturn("other", <<>>, <<PrintBlk(<<Num("1")>>)>>, <<Num("2")>>) }

\* Procedure definitions met in any order within a pass, and its end.
NextProcs ==
  \/ CallInit(7)
  \/ \E block \in ProcedureBlocks : CallBlockToCode(block)
  \/ CallFinish

SpecProcs == Init /\ [][NextProcs]_vars

\* Loops: the count missing, a number, an expression; the body missing or
\* not; loops within loops.
RepeatBlocks ==
  { RepeatExt(<<>>, <<>>),
    RepeatExt(<<>>, <<PrintBlk(<<Num("1")>>)>>),
    RepeatExt(<<Num("3")>>, <<>>),
    RepeatExt(<<Arith("ADD", <<VarGet("v1")>>, <<Num("1")>>)>>, <<>>),
    RepeatExt(<<>>, <<RepeatExt(<<>>, <<>>)>>),
    RepeatExt(<<>>, <<ForEach("v1", <<>>, <<RepeatExt(<<>>, <<>>)>>)>>),
    ForEach("v1", <<EmptyList>>, <<ForEach("v2", <<>>, <<>>)>>) }

\* The suffixes the model allots leave room for the names of one more loop
\* nest, whichever of the base names the loops ask distinct names for.
RoomForNames ==
  \A n \in {"count", "repeat_end", "list", "index"} :
    candidate(n, MaxSuffix - 1) \notin nameDB_.dbReverse

\* Loops generated one after the other within a pass.
NextLoops ==
  \/ CallInit(2)
  \/ \E block \in RepeatBlocks : RoomForNames /\ CallEmitter(block)

SpecLoops == Init /\ [][NextLoops]_vars

\* Chains of blocks with comments on the block, on the blocks in its value
\* inputs, on the blocks in its statement input and on the next block; a
\* block whose output is connected; blocks without comments.
ScrubChains ==
  { << Commented(PrintBlk(<<Commented(Num("1"), "one")>>), "print") >>,
    << Commented(PrintBlk(<<Num("1")>>), "first"),
       Commented(PrintBlk(<<Commented(Num("2"), "two")>>), "second") >>,
    << Arith("ADD", <<Commented(Num("1"), "left")>>, <<Commented(Num("2"), "right")>>) >>,
    << Commented(RepeatExt(<<Commented(Num("3"), "times")>>,
                           <<Commented(PrintBlk(<<Num("1")>>), "body")>>), "loop"),
       PrintBlk(<<Num("2")>>) >>,
    << RepeatExt(<<>>, <<Commented(PrintBlk(<<Commented(Num("1"), "one")>>), "body")>>) >>,
    V("IN", << Commented(Arith("ADD", <<Commented(Num("1"), "left")>>, <<Num("2")>>),
                         "sum") >>).target,
    << PrintBlk(<<Num("1")>>), PrintBlk(<<Num("2")>>) >> }

\* Code handed to scrub_ for the block.
ScrubCodes == { <<>>, <<"code", ";", NL>> }

\* scrub_ called on each chain, for the block alone and with what follows.
NextScrub ==
  \/ \E w \in {2, 7} : CallInit(w)
  \/ CallFinish
  \/ \E chain \in ScrubChains : \E given \in ScrubCodes : \E thisOnly \in BOOLEAN :
       RoomForNames /\ CallScrub(chain, given, thisOnly)

SpecScrub == Init /\ [][NextScrub]_vars

\* Blocks whose index is an expression: a sum, a comparison, a disjunction,
\* a negation, a number.
ExpressionIndexBlocks ==
  { GetIndex(<<VarGet("v1")>>, <<Arith("ADD", <<Num("1")>>, <<Num("2")>>)>>),
    GetIndex(<<VarGet("v1")>>, <<Compare("LT", <<Num("1")>>, <<Num("2")>>)>>),
    GetIndex(<<VarGet("v1")>>, <<Logic("OR", <<Bool("TRUE")>>, <<Bool("FALSE")>>)>>),
    GetIndex(<<VarGet("v1")>>, <<Negate(<<Bool("TRUE")>>)>>),
    GetIndex(<<VarGet("v1")>>, <<Num("1")>>) }

\* Index adjustment over expressions, with 0-based and 1-based indexing.
NextAdjust ==
  \/ \E w \in {7, 8} : CallInit(w)
  \/ \E block \in ExpressionIndexBlocks :
       \E d \in Deltas : \E n \in BOOLEAN : \E o \in OptOrders :
         CallGetAdjusted(block, "AT", d, n, o)

SpecAdjust == Init /\ [][NextAdjust]_vars

\* Searches in texts and lists, joins of texts, and other expressions, one
\* of them around a search.
SearchBlocks ==
  { TextIndexOf("FIRST", <<VarGet("v1")>>, <<>>),
    TextIndexOf("LAST", <<VarGet("v1")>>, <<VarGet("v1")>>),
    TextIndexOf("FIRST", <<>>, <<Arith("ADD", <<Num("1")>>, <<Num("1")>>)>>),
    ListsIndexOf("FIRST", <<EmptyList>>, <<Num("3")>>),
    ListsIndexOf("LAST", <<>>, <<>>),
    ListsIndexOf("FIRST", <<VarGet("v1")>>, <<Arith("ADD", <<Num("1")>>, <<Num("1")>>)>>),
    TextJoin(<< <<VarGet("v1")>> >>),
    TextJoin(<< <<VarGet("v1")>>, <<Num("1")>> >>),
    TextJoin(<< <<Num("1")>>, <<>>, <<VarGet("v1")>> >>),
    TextJoin(<< <<Compare("LT", <<Num("1")>>, <<Num("2")>>)>>, <<VarGet("v1")>> >>),
    Arith("MULTIPLY", <<ListsIndexOf("FIRST", <<EmptyList>>, <<Num("3")>>)>>, <<Num("2")>>),
    Arith("MINUS", <<Num("1")>>, <<Arith("MINUS", <<Num("2")>>, <<Num("3")>>)>>),
    Logic("OR", <<Bool("TRUE")>>, <<Compare("EQ", <<Num("1")>>, <<Num("2")>>)>>),
    GetIndex(<<VarGet("v1")>>, <<Num("1")>>),
    Reverse(<<EmptyList>>) }

\* The expression emitters called one by one, with 0-based and with 1-based
\* indexing.
NextSearch ==
  \/ \E w \in {7, 8} : CallInit(w)
  \/ \E block \in SearchBlocks : CallEmitter(block)

SpecSearch == Init /\ [][NextSearch]_vars

\* Conditions for a branch or a loop: a constant, a variable, a comparison,
\* a conjunction, a disjunction, a negation, nothing.
ConditionBlocks ==
  { <<>>, <<Bool("TRUE")>>, <<VarGet("v1")>>,
    <<Compare("LT", <<Num("1")>>, <<Num("2")>>)>>,
    <<Logic("AND", <<Bool("TRUE")>>, <<Bool("FALSE")>>)>>,
    <<Logic("OR", <<Bool("TRUE")>>, <<Bool("FALSE")>>)>>,
    <<Negate(<<Bool("TRUE")>>)>> }

\* Branches of one, two and three IF/DO pairs with and without ELSE, and
\* loops, with bodies connected and not.
BranchBlocks ==
  { If(<< << <<Bool("TRUE")>>, <<PrintBlk(<<Num("1")>>)>> >> >>),
    If(<< << <<>>, <<>> >> >>),
    If(<< << <<Bool("TRUE")>>, <<PrintBlk(<<Num("1")>>)>> >>,
          << <<VarGet("v1")>>, <<PrintBlk(<<Num("2")>>)>> >> >>),
    If(<< << <<Bool("TRUE")>>, <<>> >>,
          << <<VarGet("v1")>>, <<>> >>,
          << <<Bool("FALSE")>>, <<PrintBlk(<<Num("3")>>)>> >> >>),
    IfElse(<< << <<Bool("TRUE")>>, <<PrintBlk(<<Num("1")>>)>> >> >>,
           <<PrintBlk(<<Num("2")>>)>>),
    IfElse(<< << <<Bool("TRUE")>>, <<PrintBlk(<<Num("1")>>)>> >> >>, <<>>),
    IfElse(<< << <<Bool("TRUE")>>, <<>> >>, << <<VarGet("v1")>>, <<>> >> >>,
           <<PrintBlk(<<Num("3")>>)>>),
    IfElse(<< << <<Bool("TRUE")>>,
                 <<If(<< << <<VarGet("v1")>>, <<>> >> >>)>> >> >>, <<>>),
    RepeatExt(<<Num("3")>>, <<>>),
    RepeatExt(<<Num("3")>>, <<PrintBlk(<<Num("1")>>)>>),
    ForEach("v1", <<EmptyList>>, <<>>) }
    \cup {WhileUntil(mode, bool, do) :
            mode \in {"WHILE", "UNTIL"}, bool \in ConditionBlocks,
            do \in {<<>>, <<PrintBlk(<<Num("1")>>)>>}}

\* Branches and loops emitted one after the other within a pass.
NextBranch ==
  \/ \E w \in {2, 7} : CallInit(w)
  \/ \E block \in BranchBlocks : RoomForNames /\ CallEmitter(block)

SpecBranch == Init /\ [][NextBranch]_vars

(***************************************************************************)
(* Parentheses.                                                            *)
(***************************************************************************)
\* The pairings of a context order and a child order that never need
\* parentheses.
NoWrapPairs ==
  { <<Order.FUNCTION_CALL, Order.MEMBER>>, <<Order.FUNCTION_CALL, Order.FUNCTION_CALL>>,
    <<Order.MEMBER, Order.MEMBER>>, <<Order.MEMBER, Order.FUNCTION_CALL>>,
    <<Order.LOGICAL_NOT, Order.LOGICAL_NOT>>, <<Order.LOGICAL_AND, Order.LOGICAL_AND>>,
    <<Order.LOGICAL_OR, Order.LOGICAL_OR>> }

\* The child binds tighter than its context, or is atomic in an atomic
\* context or an expression in a context that takes any expression.
BindsTighter(context, child) ==
  \/ child < context
  \/ child = context /\ context \in {Order.ATOMIC, Order.NONE}

\* The latest call was a valueToCode call that returned code.
ValueCalled ==
  /\ lastCall.op = "valueToCode"
  /\ lastCall.g0.isInitialized
  /\ lastCall.err = NoErr

\* What valueToCode returned is the code of the connected block, in
\* parentheses exactly when rule(context, child order) says so.
WrapsWhen(rule(_, _)) ==
  Then(blockToCode(lastCall.g0, getInputTarget(lastCall.block, lastCall.name), FALSE),
       LAMBDA child :
         lastCall.code = IF rule(lastCall.outer, child.order)
                         THEN <<"(">> \o child.code \o <<")">>
                         ELSE child.code)

\* C1 as stated: valueToCode wraps the child's code in parentheses exactly
\* when NOT (child_order <= context_order OR the pair is one of the seven
\* ORDER_OVERRIDES pairs), and returns it unchanged otherwise.
C1_WrapUnlessNotLooser ==
  ValueCalled =>
    WrapsWhen(LAMBDA context, child :
                ~(child <= context \/ <<context, child>> \in NoWrapPairs))

\* C1, amended: for every context order and every child order of the Order
\* table, valueToCode wraps the child's code in parentheses exactly when NOT
\* (the child binds strictly tighter than the context, or both orders are
\* ATOMIC or both are NONE, or the pair is one of the seven ORDER_OVERRIDES
\* pairs), and returns the child's code unchanged otherwise.
C1_WrapUnlessTighter ==
  /\ \A context \in OrderValues : \A child \in OrderValues :
       parensNeeded(context, child)
         <=> ~(BindsTighter(context, child) \/ <<context, child>> \in NoWrapPairs)
  /\ ValueCalled =>
       WrapsWhen(LAMBDA context, child :
                   ~(BindsTighter(context, child) \/ <<context, child>> \in NoWrapPairs))

\* A subtraction asked for in the context of a subtraction came back in
\* parentheses.
C1_Witness ==
  /\ ValueCalled
  /\ lastCall.outer = Order.ADDITIVE
  /\ getInputTarget(lastCall.block, lastCall.name)[1].type = "math_arithmetic"
  /\ lastCall.code = <<"(", "1", " - ", "2", ")">>

\* The text of a code token as a parser reads it: operators without the
\* blanks around them.
Lexemes ==
  [t \in {" + ", " - ", " * ", " / ", " ** "} |->
     CASE t = " + " -> "+" [] t = " - " -> "-" [] t = " * " -> "*"
       [] t = " / " -> "/" [] t = " ** " -> "**"]

\* The tokens of emitted code without blanks.
Lex(tokens) ==
  SelectSeq([i \in 1..Len(tokens) |->
               IF tokens[i] \in DOMAIN Lexemes THEN Lexemes[tokens[i]] ELSE tokens[i]],
            LAMBDA t : t # " ")

\* How tightly the operators of the target grammar bind, tightest first.
Binding ==
  [o \in {"**", "*", "/", "+", "-", "<", "<=", ">", ">=", "==", "!=", "&&", "||"} |->
     CASE o = "**" -> Order.EXPONENTIATION
       [] o \in {"*", "/"} -> Order.MULTIPLICATIVE
       [] o \in {"+", "-"} -> Order.ADDITIVE
       [] o \in {"<", "<=", ">", ">="} -> Order.RELATIONAL
       [] o \in {"==", "!="} -> Order.EQUALITY
       [] o = "&&" -> Order.LOGICAL_AND
       [] o = "||" -> Order.LOGICAL_OR]

\* Operators for which (x o y) o z and x o (y o z) are the same value.
Regroupable == {"&&", "||"}

\* x o1 y grouped first, then o2 z.
GroupLeft(x, o1, y, o2, z) == "((" \o x \o o1 \o y \o ")" \o o2 \o z \o ")"

\* y o2 z grouped first, under x o1; written left-first where regrouping
\* changes nothing.
GroupRight(x, o1, y, o2, z) ==
  IF o1 = o2 /\ o1 \in Regroupable THEN GroupLeft(x, o1, y, o2, z)
  ELSE "(" \o x \o o1 \o "(" \o y \o o2 \o z \o "))"

\* How a parser of the target grammar groups the text of three operands
\* and two operators: by the parentheses, else by binding strength, and from
\* the left between operators of equal strength.
Reading(t) ==
  CASE Len(t) = 5 /\ t[2] \in DOMAIN Binding /\ t[4] \in DOMAIN Binding ->
         IF Binding[t[2]] <= Binding[t[4]]
         THEN GroupLeft(t[1], t[2], t[3], t[4], t[5])
         ELSE GroupRight(t[1], t[2], t[3], t[4], t[5])
    [] Len(t) = 7 /\ t[1] = "(" /\ t[5] = ")" -> GroupLeft(t[2], t[3], t[4], t[6], t[7])
    [] Len(t) = 7 /\ t[3] = "(" /\ t[7] = ")" -> GroupRight(t[1], t[2], t[4], t[5], t[6])
    [] OTHER -> "unreadable"

\* The operator of the target language a binary block stands for.
OperatorText ==
  [ADD |-> "+", MINUS |-> "-", MULTIPLY |-> "*", DIVIDE |-> "/", POWER |-> "**",
   EQ |-> "==", NEQ |-> "!=", LT |-> "<", LTE |-> "<=", GT |-> ">", GTE |-> ">=",
   AND |-> "&&", OR |-> "||"]

OperatorOf(block) == OperatorText[getFieldValue(block, "OP")]

\* The grouping two nested binary blocks over 1, 2 and 3 stand for.
Structure(block) ==
  IF getInputTarget(block, "A")[1].type # "math_number"
  THEN GroupLeft("1", OperatorOf(getInputTarget(block, "A")[1]), "2", OperatorOf(block), "3")
  ELSE GroupRight("1", OperatorOf(block), "2", OperatorOf(getInputTarget(block, "B")[1]), "3")

\* The latest call was an emitter's, and it returned code.
Emitted ==
  /\ lastCall.op = "emitter"
  /\ lastCall.g0.isInitialized
  /\ lastCall.err = NoErr

\* C2: the text emitted for two nested binary-operator blocks is read back
\* by a parser of the target grammar as the grouping of the blocks; a
\* subtraction as right operand of a subtraction keeps its parentheses,
\* 'a - (b - c)'; and a child in an ORDER_OVERRIDES pairing (call on call,
\* member on member, AND inside AND, OR inside OR) gains none.
C2_NestedOperatorsReadBack ==
  Emitted =>
    /\ lastCall.block \in NestedBlocks =>
         Reading(Lex(lastCall.code)) = Structure(lastCall.block)
    /\ lastCall.block
         = NestedRight(<<"math_arithmetic", "MINUS">>, <<"math_arithmetic", "MINUS">>)
         => Flat(lastCall.code) = "1 - (2 - 3)"
    /\ \A o \in {"AND", "OR"} :
         lastCall.block
           \in {NestedLeft(<<"logic_operation", o>>, <<"logic_operation", o>>),
                NestedRight(<<"logic_operation", o>>, <<"logic_operation", o>>)}
           => Flat(lastCall.code)
                = "1 " \o OperatorText[o] \o " 2 " \o OperatorText[o] \o " 3"
    /\ lastCall.block = Reverse(<<Reverse(<<EmptyList>>)>>)
         => Flat(lastCall.code) = "lists_reverse(lists_reverse([]))"
    /\ lastCall.block = GetIndex(<<GetIndex(<<EmptyList>>, <<Num("1")>>)>>, <<Num("2")>>)
         => Flat(lastCall.code) = "[][1][2]"

\* The emitter of a subtraction with a subtraction as its right operand has
\* returned its code.
C2_Witness ==
  /\ Emitted
  /\ lastCall.block
       = NestedRight(<<"math_arithmetic", "MINUS">>, <<"math_arithmetic", "MINUS">>)
  /\ Reading(Lex(lastCall.code)) = "(1-(2-3))"

(***************************************************************************)
(* The life of a generator and its passes.                                 *)
(***************************************************************************)
\* C3: the generator is either uninitialized or initialized; it is
\* uninitialized after construction, and after any sequence of init and
\* finish calls it is initialized exactly when the latest of them was init.
C3_InitializedIffLastWasInit ==
  /\ isInitialized \in BOOLEAN
  /\ isInitialized <=> lifecycle = "init"

\* A generator initialized again after a pass that init began and finish
\* ended.
C3_Witness ==
  /\ lifecycle = "init"
  /\ prev.valid
  /\ isInitialized
  /\ ~lastCall.g0.isInitialized

\* The latest call was a generation operation on an uninitialized generator.
CalledUninitialized ==
  /\ lastCall.op \in {"emitter", "blockToCode", "valueToCode", "statementToCode",
                      "provideFunction_"}
  /\ ~lastCall.g0.isInitialized

\* C4: a generation operation (blockToCode, valueToCode, statementToCode,
\* provideFunction_ or any emitter) invoked while the generator is
\* uninitialized yields a usage error and produces no code.
C4_UninitializedUseIsAnError ==
  CalledUninitialized => lastCall.err # NoErr /\ lastCall.code = <<>>

\* The whole pass over a workspace on a generator of its own.
FreshPass(ws) ==
  Then(init(NewGenerator, ws), LAMBDA g :
  Then(blocksToCode(g, ws.tops), LAMBDA r : finish(r.g, r.code).code))

\* C5: after init of a later pass the Definitions Table, the Helper Function
\* Registry and the Name Database hold nothing of an earlier pass: they are
\* what init leaves on a new generator, the output of the pass is the output
\* of the same pass on a new generator, and finish itself clears none of
\* the three.
C5_PassesIndependent ==
  /\ (lastCall.op = "init" /\ lastCall.err = NoErr) =>
       /\ \A i \in 1..Len(definitions_) : definitions_[i].key = "variables"
       /\ functionNames_ = <<>>
       /\ Then(init(NewGenerator, workspace), LAMBDA fresh :
            nameDB_ = fresh.nameDB_ /\ definitions_ = fresh.definitions_)
  /\ stage = "done" => output = FreshPass(workspace)
  /\ lastCall.op = "finish" =>
       /\ definitions_ = lastCall.g0.definitions_
       /\ functionNames_ = lastCall.g0.functionNames_
       /\ nameDB_ = lastCall.g0.nameDB_

\* init has run on a generator that finish left with a helper, its name and
\* the names of a whole pass.
C5_Witness ==
  /\ lastCall.op = "init"
  /\ prev.valid
  /\ lastCall.g0.functionNames_ # <<>>
  /\ Len(lastCall.g0.definitions_) > 1
  /\ lastCall.g0.nameDB_.dbReverse # {}
  /\ functionNames_ = <<>>

\* C6: the whole pass (init, the code of every block, finish) run twice in
\* a row over the same block tree with the same generator returns the same
\* text, the names of synthesized loop counters and helper functions
\* included.
C6_SamePassSameOutput ==
  (stage = "done" /\ prev.valid /\ prev.workspace = workspace) => output = prev.output

\* The pass over the nested loops and the helper has run twice.
C6_Witness ==
  /\ stage = "done"
  /\ prev.valid
  /\ prev.workspace = workspace
  /\ workspace = Workspaces[2]
  /\ \E i \in 1..Len(output) : output[i] = "repeat_end"
  /\ \E i \in 1..Len(output) : output[i] = "count3"

\* The text of the 'variables' entry each workspace calls for: a line for
\* each used variable, in the order of first use.
VariablesText ==
  << "let x = \"\";",
     "let x = \"\";\nlet count = \"\";",
     "",
     "let y = \"\";\nlet x = \"\";",
     "",
     "let list = \"\";",
     "let proc = \"\";\nlet math2 = \"\";",
     "let proc = \"\";\nlet math2 = \"\";" >>

\* C7: after init the Definitions Table entry 'variables' holds one line
\* 'let <name> = "";' for each variable used in the workspace, none for a
\* variable declared but unused, in the order of first use, joined by
\* newlines.
C7_VariablesEntry ==
  (lastCall.op = "init" /\ lastCall.err = NoErr) =>
    /\ hasKey(definitions_, "variables")
    /\ \A w \in WorkspaceIds :
         workspace = Workspaces[w]
           => Flat(getKey(definitions_, "variables")) = VariablesText[w]

\* init has run on the workspace that uses y before x and never its third
\* variable.
C7_Witness ==
  /\ lastCall.op = "init"
  /\ workspace = Workspaces[4]
  /\ Flat(getKey(definitions_, "variables")) = "let y = \"\";\nlet x = \"\";"

RECURSIVE EntriesThenCode(_, _)
\* Each entry followed by a blank line, then the code.
EntriesThenCode(entries, text) ==
  IF entries = <<>> THEN text
  ELSE Head(entries).code \o <<NL, NL>> \o EntriesThenCode(Tail(entries), text)

\* C8: finish(code) returns the Definitions Table entries in insertion
\* order ('variables' first, then procedures and helpers in the order they
\* were registered), a blank line between consecutive entries, then a blank
\* line and the main code unchanged, also when 'variables' is empty.
C8_FinishAssembles ==
  lastCall.op = "finish" =>
    /\ output = IF lastCall.g0.definitions_ = <<>> THEN <<NL, NL>> \o code
                ELSE EntriesThenCode(lastCall.g0.definitions_, code)
    /\ lastCall.g0.isInitialized => lastCall.g0.definitions_[1].key = "variables"
    /\ (stage = "done" /\ workspace = Workspaces[3]) =>
         /\ [i \in 1..3 |-> lastCall.g0.definitions_[i].key]
              = <<"variables", "lists_reverse", "%proc">>
         /\ lastCall.g0.definitions_[1].code = <<>>
         /\ SubSeq(output, 1, 4) = <<NL, NL, "func ", "lists_reverse">>
    /\ (stage = "done" /\ workspace = Workspaces[4]) =>
         Flat(output) = "let y = \"\";\nlet x = \"\";\n\ny = x;\nx = y;\n"

\* finish has closed the pass that has no variable, a helper and a procedure.
C8_Witness ==
  /\ lastCall.op = "finish"
  /\ stage = "done"
  /\ workspace = Workspaces[3]
  /\ Len(lastCall.g0.definitions_) = 3
  /\ lastCall.g0.definitions_[1].code = <<>>

\* The names a helper asked for as lists_reverse can get.
HelperNames == {candidate("lists_reverse", k) : k \in 1..MaxSuffix}

\* Where the text calls the helper, and where it defines it.
CallSites(text) ==
  {i \in 1..(Len(text) - 1) : text[i] \in HelperNames /\ text[i + 1] = "("}

HelperDefinitions(text) ==
  {i \in 2..Len(text) : text[i] = "(list) {" /\ text[i - 1] \in HelperNames}

\* The number of lists_reverse blocks of a workspace.
ReverseBlocks(ws) ==
  Len(SelectSeq(getAllBlocks(ws.tops), LAMBDA b : b.type = "lists_reverse"))

\* C9: within one pass over N >= 1 blocks that need the same helper, the
\* output holds one rendered definition of the helper and N call sites, all
\* of the name the definition has; and provideFunction_ for a key already
\* present returns the name allocated before and leaves the Definitions
\* Table as it was.
C9_HelperEmittedOnce ==
  /\ (stage = "done" /\ ReverseBlocks(workspace) >= 1) =>
       /\ Cardinality(HelperDefinitions(output)) = 1
       /\ Cardinality(CallSites(output)) = ReverseBlocks(workspace)
       /\ \A i \in CallSites(output) : \A j \in HelperDefinitions(output) :
            output[i] = output[j - 1]
  /\ (/\ lastCall.op = "provideFunction_"
      /\ lastCall.g0.isInitialized
      /\ hasKey(lastCall.g0.definitions_, lastCall.name)) =>
       /\ lastCall.code = <<getKey(lastCall.g0.functionNames_, lastCall.name)>>
       /\ definitions_ = lastCall.g0.definitions_

\* The pass over three lists_reverse blocks is done.
C9_Witness ==
  /\ stage = "done"
  /\ ReverseBlocks(workspace) = 3
  /\ Cardinality(CallSites(output)) = 3

(***************************************************************************)
(* Index adjustment.                                                       *)
(***************************************************************************)
\* The latest call was getAdjusted with no delta and no order, on the block
\* whose index input holds the number.
AdjustedPlain(number) ==
  /\ lastCall.op = "getAdjusted"
  /\ lastCall.g0.isInitialized
  /\ lastCall.err = NoErr
  /\ lastCall.block = GetIndex(<<EmptyList>>, <<Num(number)>>)
  /\ lastCall.delta = Undefined
  /\ lastCall.outer = Undefined
  /\ ~lastCall.negate

\* C10: through getAdjusted, with oneBasedIndex set an index whose code is
\* '1' resolves to '0'; with oneBasedIndex unset an index '0' resolves to
\* '0'; and with opt_negate the index is negated, prefixed with a minus sign.
C10_IndexAdjusted ==
  /\ (AdjustedPlain("1") /\ lastCall.g0.workspace.oneBasedIndex)
       => Flat(lastCall.code) = "0"
  /\ (AdjustedPlain("0") /\ ~lastCall.g0.workspace.oneBasedIndex)
       => Flat(lastCall.code) = "0"
  /\ (/\ lastCall.op = "getAdjusted"
      /\ lastCall.g0.isInitialized
      /\ lastCall.err = NoErr
      /\ lastCall.negate
      /\ lastCall.code # <<>>)
       => \E i \in 1..2 : lastCall.code[i] = "-"

(***************************************************************************)
(* Malformed and incomplete blocks.                                        *)
(***************************************************************************)
\* The field of each emitter that holds an option, and the options it knows.
OptionField ==
  [math_arithmetic |-> "OP", logic_compare |-> "OP", logic_operation |-> "OP",
   math_single |-> "OP", text_trim |-> "MODE"]

KnownOptions ==
  [math_arithmetic |-> {"ADD", "MINUS", "MULTIPLY", "DIVIDE", "POWER"},
   logic_compare |-> {"EQ", "NEQ", "LT", "LTE", "GT", "GTE"},
   logic_operation |-> {"AND", "OR"},
   math_single |-> {"NEG", "SIN", "COS", "TAN", "ROOT", "LN", "LOG10", "ABS", "EXP",
                    "POW10"},
   text_trim |-> {"LEFT", "RIGHT", "BOTH"}]

\* The latest call was an emitter's, within a pass.
EmitterCalled ==
  /\ lastCall.op = "emitter"
  /\ lastCall.g0.isInitialized

\* The block of the latest call holds an option its emitter does not know.
UnknownOption ==
  /\ lastCall.block.type \in DOMAIN OptionField
  /\ getFieldValue(lastCall.block, OptionField[lastCall.block.type])
       \notin KnownOptions[lastCall.block.type]

\* C11: an emitter that reads an enumerated field (OP of math_arithmetic,
\* math_single, logic_compare and logic_operation, MODE of text_trim, ...)
\* raises a fatal generation error when the field holds a value outside its
\* known options, and returns no code for such a block.
C11_UnknownOptionIsFatal ==
  (EmitterCalled /\ UnknownOption) => lastCall.err # NoErr /\ lastCall.code = <<>>

\* The literals an emitter may put in the place of a missing operand.
DefaultLiterals == {"0", "1", "\"\"", "[]", "null", "true", "false"}

\* The value inputs of the block that nothing is connected to.
OpenInputs(block) ==
  {i \in 1..Len(block.inputs) :
     block.inputs[i].type = "VALUE" /\ block.inputs[i].target = <<>>}

\* The block with a literal connected to each of its open value inputs.
Filled(block, literals) ==
  [block EXCEPT !.inputs =
     [i \in 1..Len(block.inputs) |->
        IF i \in OpenInputs(block)
        THEN V(block.inputs[i].name, <<Num(literals[i])>>) ELSE block.inputs[i]]]

\* C12: an unconnected value slot is no error and leaves no operand
\* position empty: the code an emitter returns for a block with unconnected
\* value slots (the index slot read through getAdjusted included) is the code
\* for the block with some non-empty default literal in each of them.
C12_OpenSlotGetsDefault ==
  (EmitterCalled /\ OpenInputs(lastCall.block) # {}) =>
    /\ lastCall.err = NoErr
    /\ \E literals \in [1..Len(lastCall.block.inputs) -> DefaultLiterals] :
         forBlock(lastCall.g0, Filled(lastCall.block, literals)).code = lastCall.code

\* The replacement each binary emitter has for a missing operand.
Neutral(block) ==
  CASE block.type = "logic_operation" /\ getFieldValue(block, "OP") = "AND" -> "true"
    [] block.type = "logic_operation" -> "false"
    [] OTHER -> "0"

\* C13: in logic_operation every missing operand is replaced by the
\* identity of the operator, 'true' for AND and 'false' for OR, whether one
\* operand or both are missing; in math_arithmetic and logic_compare every
\* missing operand is replaced by '0'.
C13_MissingOperandIsNeutral ==
  (/\ EmitterCalled
   /\ lastCall.err = NoErr
   /\ lastCall.block.type \in {"logic_operation", "math_arithmetic", "logic_compare"}) =>
    /\ getInputTarget(lastCall.block, "A") = <<>>
         => Head(lastCall.code) = Neutral(lastCall.block)
    /\ getInputTarget(lastCall.block, "B") = <<>>
         => lastCall.code[Len(lastCall.code)] = Neutral(lastCall.block)

(***************************************************************************)
(* Negation.                                                               *)
(***************************************************************************)
\* The latest call was the emitter of a NEG block, and it returned code.
Negated ==
  /\ Emitted
  /\ lastCall.block.type = "math_single"
  /\ getFieldValue(lastCall.block, "OP") = "NEG"

\* Whether the text of the tokens holds two minus signs side by side.
DoubleMinus(tokens) ==
  \E i \in 1..(Len(tokens) - 1) :
    tokens[i] = "-" /\ tokens[i + 1] \in {"-", "-1", "-3"}

\* C14: math_single with OP = NEG emits no two adjacent minus signs: an
\* operand whose text begins with '-' (a negative number, a negation at any
\* depth) is put in parentheses before the '-' is prefixed; and the result
\* has order UNARY_SIGN.
C14_NoDoubleMinus ==
  /\ Emitted => ~DoubleMinus(lastCall.code)
  /\ Negated =>
       /\ lastCall.order = Order.UNARY_SIGN
       /\ Then(OrElse(valueToCode(lastCall.g0, lastCall.block, "NUM",
                                  Order.UNARY_SIGN).code, <<"0">>),
               LAMBDA operand :
                 lastCall.code = IF Head(operand) \in {"-", "-1", "-3"}
                                 THEN <<"-", " (">> \o operand \o <<")">>
                                 ELSE <<"-">> \o operand)

\* The negation of -3 and the negation of a negation have been emitted.
C14_Witness ==
  /\ Negated
  /\ lastCall.code \in { <<"-", " (", "-3", ")">>, <<"-", "(", "-", "3", ")">> }

(***************************************************************************)
(* Where-modes of the indexing emitters.                                   *)
(***************************************************************************)
\* The index a where-mode selects: the adjusted offset from the start, the
\* negated adjusted offset from the end, or the sentinel of FIRST and LAST.
IndexOfMode(g, block, where) ==
  CASE where = "FROM_START" ->
         getAdjusted(g, block, "AT", Undefined, FALSE, Undefined).code
    [] where = "FROM_END" -> getAdjusted(g, block, "AT", 1, TRUE, Undefined).code
    [] where = "FIRST" -> <<"0">>
    [] where = "LAST" -> <<"-1">>

\* C15: an indexing emitter (text_charAt, lists_getIndex, ...) selects the
\* index it emits by the WHERE field of the block: FROM_START gives the
\* adjusted offset, FROM_END the negated adjusted offset, FIRST and LAST the
\* sentinel index; any other value of the field, an absent one included,
\* raises a hard error.
C15_IndexByWhereMode ==
  (/\ EmitterCalled
   /\ lastCall.block.type \in {"text_charAt", "lists_getIndex"}
   /\ getFieldValue(lastCall.block, "WHERE") # "RANDOM") =>
    IF getFieldValue(lastCall.block, "WHERE") \in {"FROM_START", "FROM_END", "FIRST", "LAST"}
    THEN /\ lastCall.err = NoErr
         /\ Len(lastCall.code) >= 3
         /\ SubSeq(lastCall.code, 3, Len(lastCall.code) - 1)
              = IndexOfMode(lastCall.g0, lastCall.block,
                            getFieldValue(lastCall.block, "WHERE"))
    ELSE lastCall.err # NoErr

(***************************************************************************)
(* Procedure definitions.                                                  *)
(***************************************************************************)
\* The latest call generated a procedure definition block, within a pass.
ProcedureDefined ==
  /\ lastCall.op = "blockToCode"
  /\ lastCall.g0.isInitialized
  /\ lastCall.err = NoErr
  /\ lastCall.block.type \in {"procedures_defreturn", "procedures_defnoreturn"}

\* The key of the Definitions Table that belongs to the procedure.
ProcedureKey ==
  "%" \o getProcedureName(lastCall.g0, getFieldValue(lastCall.block, "NAME")).name

\* The position of the brace that closes the function.
LastBrace(tokens) ==
  CHOOSE k \in 1..Len(tokens) :
    tokens[k] = "}" /\ \A j \in (k + 1)..Len(tokens) : tokens[j] # "}"

\* The last statement before the closing brace is 'return;' or
\* 'return <value>;'.
EndsWithReturn(tokens) ==
  /\ \E k \in 1..Len(tokens) : tokens[k] = "}"
  /\ LastBrace(tokens) > 2
  /\ tokens[LastBrace(tokens) - 1] = NL
  /\ \/ tokens[LastBrace(tokens) - 2] = "return;"
     \/ /\ tokens[LastBrace(tokens) - 2] = ";"
        /\ \E j \in 1..(LastBrace(tokens) - 3) :
             /\ tokens[j] = "return "
             /\ \A i \in j..(LastBrace(tokens) - 2) : tokens[i] # NL

\* C16: the definition emitted for a procedure, by procedures_defreturn
\* or by procedures_defnoreturn, ends the function body with an explicit
\* 'return;' or 'return <value>;' as its last statement, whether the
\* statement stack is empty or not and whether there is a return value or not.
C16_BodyEndsWithReturn ==
  ProcedureDefined =>
    /\ hasKey(definitions_, ProcedureKey)
    /\ EndsWithReturn(getKey(definitions_, ProcedureKey))

\* The keys under which the helper functions are registered.
HelperKeys == {functionNames_[i].key : i \in 1..Len(functionNames_)}

\* C17: a procedure definition block adds nothing to the body stream and
\* writes one entry of the Definitions Table, under '%' followed by the
\* function name; that key is neither 'variables' nor the key of a helper,
\* so the entries of the variables, of the helpers and of procedures with
\* other names stay as they were.
C17_ProcedureEntry ==
  ProcedureDefined =>
    /\ lastCall.code = <<>>
    /\ hasKey(definitions_, ProcedureKey)
    /\ Head(getKey(definitions_, ProcedureKey)) = "func "
    /\ ProcedureKey \notin {"variables"} \cup HelperKeys
    /\ \A i \in 1..Len(lastCall.g0.definitions_) :
         /\ i <= Len(definitions_)
         /\ definitions_[i].key = lastCall.g0.definitions_[i].key
         /\ definitions_[i].key # ProcedureKey
              => definitions_[i].code = lastCall.g0.definitions_[i].code
    /\ \A i \in (Len(lastCall.g0.definitions_) + 1)..Len(definitions_) :
         definitions_[i].key \in {ProcedureKey} \cup HelperKeys

\* A procedure has been defined in a pass that holds the variables, a helper
\* and a procedure of another name, whose entries are all still there.
C17_Witness ==
  /\ ProcedureDefined
  /\ ProcedureKey = "%proc2"
  /\ hasKey(definitions_, "variables")
  /\ hasKey(definitions_, "%other")
  /\ hasKey(definitions_, "lists_reverse")
  /\ Len(definitions_) = 4

(***************************************************************************)
(* Loops and their counters.                                               *)
(***************************************************************************)
\* The latest call emitted a repeat loop whose count is not connected.
RepeatedWithoutCount ==
  /\ Emitted
  /\ lastCall.block.type = "controls_repeat_ext"
  /\ ~hasField(lastCall.block, "TIMES")
  /\ getInputTarget(lastCall.block, "TIMES") = <<>>

Declarations(tokens) ==
  {i \in 2..Len(tokens) : tokens[i - 1] \in {"for (let ", "let "}}

\* The names of the user's variables, as allocated.
UserNames(names) ==
  {names.db[i].name : i \in {j \in 1..Len(names.db) : names.db[j].type = VARIABLE_TYPE}}

\* C19: within a pass, every name a loop gets from getDistinctName (count,
\* repeat_end, list, index) differs from the names of the user's variables
\* allocated at init and from every name getDistinctName returned before in
\* the pass; loops nested in one another never share a counter.
C19_DistinctLoopNames ==
  Emitted =>
    /\ \A i \in Declarations(lastCall.code) :
         /\ lastCall.code[i] \notin lastCall.g0.nameDB_.dbReverse
         /\ lastCall.code[i] \notin UserNames(lastCall.g0.nameDB_)
         /\ lastCall.code[i] \in nameDB_.dbReverse
    /\ \A i, j \in Declarations(lastCall.code) :
         i # j => lastCall.code[i] # lastCall.code[j]

\* Three loops nested in one another have been emitted after other loops of
\* the pass, in a workspace whose variable is named count.
C19_Witness ==
  /\ Emitted
  /\ Cardinality(Declarations(lastCall.code)) = 4
  /\ "count" \in UserNames(lastCall.g0.nameDB_)
  /\ "count2" \in lastCall.g0.nameDB_.dbReverse
  /\ "list" \in lastCall.g0.nameDB_.dbReverse

(***************************************************************************)
(* Reserved words.                                                         *)
(***************************************************************************)
\* Every name allocated to a variable, a procedure, a counter or a helper.
AllocatedNames ==
  nameDB_.dbReverse
    \cup {nameDB_.db[i].name : i \in 1..Len(nameDB_.db)}
    \cup {functionNames_[i].code : i \in 1..Len(functionNames_)}

\* The tokens of the definitions and of the code generated so far.
EmittedTokens ==
  UNION {{definitions_[i].code[k] : k \in 1..Len(definitions_[i].code)} :
           i \in 1..Len(definitions_)}
    \cup {code[k] : k \in 1..Len(code)}

\* C20: 'math', 'random' and 'Number' are never the allocated name of a
\* variable, a procedure, a counter or a helper, in any pass, and are never
\* emitted as one; a variable of the user that is spelled like a reserved
\* word is given another name by init, which raises no error for it.
C20_ReservedNeverAllocated ==
  /\ AllocatedNames \cap {"math", "random", "Number"} = {}
  /\ EmittedTokens \cap {"math", "random", "Number"} = {}
  /\ lastCall.op = "init" =>
       \A i \in 1..Len(workspace.variables) :
         workspace.variables[i].name \in {"math", "random", "Number"} =>
           /\ lastCall.err = NoErr
           /\ dbHas(nameDB_, VARIABLE_TYPE, workspace.variables[i].name)
           /\ dbGet(nameDB_, VARIABLE_TYPE, workspace.variables[i].name)
                # workspace.variables[i].name

\* A pass over the workspace with a variable named math has been finished,
\* and the variable is declared as math2.
C20_Witness ==
  /\ stage = "done"
  /\ \E i \in 1..Len(workspace.variables) : workspace.variables[i].name = "math"
  /\ dbGet(nameDB_, VARIABLE_TYPE, "math") = "math2"
  /\ "math2" \in EmittedTokens

(***************************************************************************)
(* Comments and the next statement.                                        *)
(***************************************************************************)
\* A block has a comment.
HasText(text) == text # ""

\* The texts of the comments on the block and on the blocks connected to
\* its value inputs, in input order.
CommentTexts(block) ==
  SelectSeq(<<block.comment>> \o
              [i \in 1..Len(block.inputs) |->
                 IF block.inputs[i].type = "VALUE" /\ block.inputs[i].target # <<>>
                 THEN block.inputs[i].target[1].comment ELSE ""],
            HasText)

\* One '// ' line for each text.
CommentLines(texts) ==
  [k \in 1..(3 * Len(texts)) |->
     CASE k % 3 = 1 -> "// "
       [] k % 3 = 2 -> texts[(k + 1) \div 3]
       [] OTHER -> NL]

\* C21: scrub_(block, code, thisOnly) returns the comments, the code and
\* the next code: the comments are collected only when the output of the
\* block is not connected, and are then the comment of the block and the
\* comments of the blocks in its value inputs, in input order, never those of
\* the blocks in its statement inputs; the next code is that of the next
\* statement, and is empty when thisOnly is true or no block follows.
C21_ScrubJoins ==
  (lastCall.op = "scrub_" /\ lastCall.err = NoErr) =>
    lastCall.code =
      (IF lastCall.block.plugged THEN <<>>
       ELSE CommentLines(CommentTexts(lastCall.block)))
      \o lastCall.given
      \o (IF lastCall.thisOnly \/ lastCall.next = <<>> THEN <<>>
          ELSE blockToCode(lastCall.g0, lastCall.next, FALSE).code)

\* scrub_ has returned the comments of a loop and of its count, not that of
\* its body, before the code given and the code of the next statement.
C21_Witness ==
  /\ lastCall.op = "scrub_"
  /\ lastCall.err = NoErr
  /\ Flat(lastCall.code) = "// loop\n// times\ncode;\nprint(2);\n"

(***************************************************************************)
(* What an index adjustment applies to.                                    *)
(***************************************************************************)
\* The delta getAdjusted applies in the call: the one asked for, less one
\* with 1-based indexing.
AppliedDelta ==
  (IF lastCall.delta = Undefined THEN 0 ELSE lastCall.delta)
    - (IF lastCall.g0.workspace.oneBasedIndex THEN 1 ELSE 0)

\* The tokens hold the part between parentheses.
Parenthesized(tokens, part) ==
  \E i \in 1..Len(tokens) :
    /\ i + Len(part) + 1 <= Len(tokens)
    /\ SubSeq(tokens, i, i + Len(part) + 1) = <<"(">> \o part \o <<")">>

\* C22: in the text of getAdjusted a negation or a delta other than zero
\* applies to the whole index: a connected index whose operator binds looser
\* than the adjustment attached to it (looser than ADDITIVE for a delta,
\* looser than a unary operator for the negation) is put in parentheses
\* before the adjustment is attached.
C22_AdjustmentCoversIndex ==
  (/\ lastCall.op = "getAdjusted"
   /\ lastCall.g0.isInitialized
   /\ lastCall.err = NoErr
   /\ getInputTarget(lastCall.block, lastCall.name) # <<>>) =>
    Then(forBlock(lastCall.g0, getInputTarget(lastCall.block, lastCall.name)[1]),
         LAMBDA index :
           (\/ lastCall.negate /\ index.order > Order.LOGICAL_NOT
            \/ ~lastCall.negate /\ AppliedDelta # 0 /\ index.order > Order.ADDITIVE)
             => Parenthesized(lastCall.code, index.code))

(***************************************************************************)
(* Searches and the orders emitters declare.                               *)
(***************************************************************************)
\* How many brackets are open at position i of the tokens.
Depth(tokens, i) ==
  Cardinality({j \in 1..(i - 1) : tokens[j] \in {"(", " (", "["}})
    - Cardinality({j \in 1..(i - 1) : tokens[j] \in {")", "]"}})

\* The positions of the binary operators that are inside no brackets.
TopOperators(tokens) ==
  {i \in 1..Len(tokens) :
     /\ Depth(tokens, i) = 0
     /\ tokens[i] \in DOMAIN Lexemes \cup DOMAIN Binding}

\* The latest call emitted a search in a text or in a list.
Searched ==
  /\ Emitted
  /\ lastCall.block.type \in {"text_indexOf", "lists_indexOf"}

\* C23: text_indexOf and lists_indexOf adjust for 1-based indexing at one
\* site: with oneBasedIndex the expression is the 0-based search result plus
\* 1, once; without it no '+ 1' is emitted; and the result carries none of
\* the adjustments of getAdjusted.
C23_SearchAdjustedOnce ==
  Searched =>
    /\ lastCall.g0.workspace.oneBasedIndex =>
         /\ Len(lastCall.code) > 2
         /\ SubSeq(lastCall.code, Len(lastCall.code) - 2, Len(lastCall.code))
              = <<")", " + ", "1">>
         /\ TopOperators(lastCall.code) = {Len(lastCall.code) - 1}
    /\ ~lastCall.g0.workspace.oneBasedIndex =>
         /\ lastCall.code[Len(lastCall.code)] = ")"
         /\ TopOperators(lastCall.code) = {}
    /\ \A i \in 1..Len(lastCall.code) :
         Depth(lastCall.code, i) = 0 => lastCall.code[i] \notin {"!", " - "}

\* A search in a text has been emitted with 1-based indexing.
C23_Witness ==
  /\ Searched
  /\ lastCall.g0.workspace.oneBasedIndex
  /\ lastCall.block.type = "text_indexOf"
  /\ Flat(lastCall.code) = "proc.lastIndexOf(proc) + 1"

\* How tight the binary operator of a token binds.
BindingOf(token) ==
  IF token \in DOMAIN Lexemes THEN Binding[Lexemes[token]] ELSE Binding[token]

\* C27: an expression emitter declares an order that is no tighter than
\* the loosest operator at the top level of the text it returns; lists_indexOf
\* and text_indexOf with oneBasedIndex return text that ends in ' + 1' with
\* order ADDITIVE, and text_join of two or more items returns ADDITIVE.
C27_DeclaredOrderCoversText ==
  Emitted =>
    /\ \A i \in TopOperators(lastCall.code) :
         lastCall.order >= BindingOf(lastCall.code[i])
    /\ (Searched /\ lastCall.g0.workspace.oneBasedIndex) =>
         lastCall.order = Order.ADDITIVE
    /\ (lastCall.block.type = "text_join" /\ Len(lastCall.block.inputs) >= 2) =>
         lastCall.order = Order.ADDITIVE

(***************************************************************************)
(* Bodies, conditions and chains.                                          *)
(***************************************************************************)
\* The statement inputs of the block of the latest call that nothing is
\* connected to.
OpenBodies ==
  {i \in 1..Len(lastCall.block.inputs) :
     /\ lastCall.block.inputs[i].type = "STATEMENT"
     /\ lastCall.block.inputs[i].target = <<>>}

\* An opening brace is followed at once by its closing brace.
EmptyBraces(tokens) ==
  \E i \in 1..(Len(tokens) - 2) :
    /\ tokens[i] \in {") {", " else {", "++) {"}
    /\ tokens[i + 1] = NL
    /\ tokens[i + 2] = "}"

\* C24: no emitter produces a block with an empty body: for an
\* unconnected statement input (DO, DOn, ELSE) the braces hold the PASS line,
\* INDENT and '// pass'; so for controls_if and for every loop emitter.
C24_NoEmptyBody ==
  (Emitted /\ OpenBodies # {}) =>
    /\ ~EmptyBraces(lastCall.code)
    /\ \E i \in 1..Len(lastCall.code) : lastCall.code[i] = INDENT \o "// pass"

\* The parentheses of the chain that are open after token i: 'if (' opens
\* one, ') {' closes one, ') else if (' closes one and opens one.
OpenParens(tokens, i) ==
  Cardinality({j \in 1..i : tokens[j] \in {"if (", ") else if ("}})
    - Cardinality({j \in 1..i : tokens[j] \in {") {", ") else if ("}})

\* The braces that are open after token i.
OpenBraces(tokens, i) ==
  Cardinality({j \in 1..i : tokens[j] \in {") {", " else {"}})
    - Cardinality({j \in 1..i : tokens[j] = "}"})

\* Parentheses and braces are balanced: none closed that was not open, none
\* left open.
Balanced(tokens) ==
  /\ \A i \in 1..Len(tokens) :
       /\ tokens[i] \in {") {", ") else if ("} => OpenParens(tokens, i - 1) >= 1
       /\ tokens[i] = "}" => OpenBraces(tokens, i - 1) >= 1
  /\ OpenParens(tokens, Len(tokens)) = 0
  /\ OpenBraces(tokens, Len(tokens)) = 0

\* C25: for controls_if with one or more IF/DO pairs and an optional
\* ELSE the text is a well-formed chain: parentheses and braces are balanced,
\* and it reads 'if (c0) {b0}', then ' else if (ci) {bi}' for each further
\* pair, then ' else {e}' when there is an ELSE input, and ends in a newline.
C25_IfChainWellFormed ==
  (Emitted /\ lastCall.block.type = "controls_if") =>
    /\ Balanced(lastCall.code)
    /\ Head(lastCall.code) = "if ("
    /\ lastCall.code[Len(lastCall.code)] = NL
    /\ \A i \in 1..(Len(lastCall.code) - 1) :
         lastCall.code[i] = "}" =>
           lastCall.code[i + 1] \in {NL, " else if (", " else {"}

\* C26: controls_whileUntil with MODE = UNTIL emits as its condition the
\* negation of the whole expression connected to BOOL: the '!' is followed by
\* the child in parentheses when the operator of the child binds looser than
\* '!' (a logic_operation, a logic_compare); in WHILE mode the condition is
\* the code of the child unchanged, in the parentheses of valueToCode or not.
C26_UntilNegatesWhole ==
  (/\ Emitted
   /\ lastCall.block.type = "controls_whileUntil"
   /\ getInputTarget(lastCall.block, "BOOL") # <<>>) =>
    Then(forBlock(lastCall.g0, getInputTarget(lastCall.block, "BOOL")[1]),
         LAMBDA child :
           IF getFieldValue(lastCall.block, "MODE") = "UNTIL"
           THEN SubSeq(lastCall.code, 1, 2) = <<"while (", "!">>
                /\ (child.order > Order.LOGICAL_NOT =>
                      SubSeq(lastCall.code, 3, Len(child.code) + 4)
                        = <<"(">> \o child.code \o <<")">>)
           ELSE \/ SubSeq(lastCall.code, 1, Len(child.code) + 2)
                     = <<"while (">> \o child.code \o <<") {">>
                \/ SubSeq(lastCall.code, 1, Len(child.code) + 4)
                     = <<"while (", "(">> \o child.code \o <<")", ") {">>)

====
